---- MODULE Spec2Model ----
(***************************************************************************)
(* Model of the authorization-token lifecycle and of the HTTP request /    *)
(* 401-retry layer of the vendored globus_sdk:                             *)
(*   globus_sdk/authorizers/renewing.py, refresh_token.py,                 *)
(*   client_credentials.py, access_token.py, basic.py, null.py,            *)
(*   globus_sdk/auth/token_response.py, globus_sdk/base.py, exc.py.        *)
(*                                                                         *)
(* Time: the wall clock (time.time(), a float) is counted in ticks of      *)
(* 1/TicksPerSecond second, so that int(time.time() + expires_in) really   *)
(* truncates.  Expiration times are whole seconds, as in the code.         *)
(***************************************************************************)
EXTENDS Integers, Sequences, FiniteSets, TLC

VARIABLES
    auth,       \* the authorizer object handed to the client (its fields)
    clock,      \* time.time(), in ticks
    ticks,      \* how many times the clock has been advanced
    pc,         \* position of the running BaseClient._request call
    req,        \* arguments of the running _request call
    rheaders,   \* the Authorization entry of the call's header dict
    op,         \* name of the call in progress, or of the last one finished
    calledAt,   \* the clock when that call started
    pre,        \* the authorizer when that call started (for a constructor:
                \* the constructor's arguments)
    grants,     \* token-grant calls (_get_token_response) made by that call
    callbacks,  \* on_refresh invocations made by that call
    renewal,    \* the last _get_new_access_token run of that call
    outcome,    \* how that call ended (return value or exception raised)
    sends,      \* HTTP sends (send_request) made by that call
    resps,      \* status codes of the responses received by that call
    sentAuth,   \* Authorization header carried by each send of that call
    received,   \* what the last send of that call got from the transport
    scenarioA,  \* observer of the run "construct unseeded, decorate twice"
    recovery,   \* observer of renewals that failed and were made up for
    cursor,     \* the PaginatedResource object (its fields and its generator)
    server,     \* the result set of the endpoint the cursor pages through
    pages,      \* the page requests the cursor has made, with their answers
    yielded,    \* the records the cursor has delivered through next()
    join,       \* a call of slash_join: its arguments and what it returned
    adapter,    \* the last operation of the git-annex adapter (GlobusRemote)
    sdkClient,  \* the last client constructor call and the client it built
    wait,       \* the running or last TransferClient.task_wait call
    flow,       \* the AuthClient whose OAuth2 flow is driven, and its last call
    race        \* two callers of set_authorization_header on one authorizer

vars == <<auth, clock, ticks, pc, req, rheaders, op, calledAt, pre, grants,
          callbacks, renewal, outcome, sends, resps, sentAuth, received,
          scenarioA, recovery, cursor, server, pages, yielded, join, adapter,
          sdkClient,
          wait,
          flow,
          race>>

\* the state of the paged cursor and of its endpoint
pagingVars == <<cursor, server, pages, yielded>>

\* the state of the authorizer and of the request in progress
requestVars == <<auth, clock, ticks, req, rheaders, calledAt, pre, grants, callbacks, renewal, sends, resps, sentAuth, received, scenarioA, recovery>>

\* the state of the calls that stand apart from a request and a cursor
utilVars == <<join, adapter, sdkClient, wait, flow, race>>

(***************************************************************************)
(* Bounds of the model.                                                    *)
(***************************************************************************)
TicksPerSecond == 2
StartSeconds == 1000
MaxTicks == 2
MaxRecords == 4
MaxPerCall == 2
MaxPages == 5
MaxLen == 3
MaxTimeout == 4
MaxInterval == 3

\* oauth2_start_flow calls followed on one AuthClient
MaxFlows == 3

(***************************************************************************)
(* Python's None, an absent header, and values drawn for the inputs.       *)
(***************************************************************************)
None == "None"
NoTime == -1
NoHeader == "NoHeader"

EXPIRES_ADJUST_SECONDS == 60

RenewingKinds == {"RefreshTokenAuthorizer", "ClientCredentialsAuthorizer"}
StaticKinds == {"AccessTokenAuthorizer", "BasicAuthorizer"}
Kinds == RenewingKinds \cup StaticKinds \cup {"NullAuthorizer", "NoAuthorizer"}

ExpiresInValues == {70, 3600}
SeedExpiresAt == {StartSeconds, StartSeconds + 70}
TickSteps == {1, 10 * TicksPerSecond}
Statuses == {200, 399, 400, 401, 500}
TransportExceptions == {"ConnectTimeout", "ReadTimeout", "ConnectionError",
                        "RequestException"}

(* The JSON documents a token grant can return: a top-level token record   *)
(* whose refresh_token and expires_in fields are optional, and a list of   *)
(* other_tokens.                                                           *)
WithOptional(S, key, values) ==
    S \cup { (key :> v) @@ d : d \in S, v \in values }

MainTokenDicts ==
    WithOptional([access_token : {"T1"}, resource_server : {"rs1"},
                  scope : {"s1"}, expires_in : ExpiresInValues],
                 "refresh_token", {"R1"})
        \cup {[access_token |-> "T2", resource_server |-> "rs1",
               scope |-> "s1"]}

\* a record for a second resource server, and one for the same resource
\* server as the top-level record
OtherRs2 ==
    [access_token |-> "T3", resource_server |-> "rs2", scope |-> "s2",
     expires_in |-> 3600]
OtherRs1 ==
    [access_token |-> "T3", resource_server |-> "rs1", scope |-> "s2",
     expires_in |-> 3600, refresh_token |-> "R2"]

SingleRecordResponses ==
    [ok : {TRUE}, data : MainTokenDicts, other_tokens : {<<>>}]

MultiRecordResponses ==
    [ok : {TRUE},
     data : {d \in MainTokenDicts :
                "expires_in" \in DOMAIN d /\ d.expires_in = 3600
                    /\ "refresh_token" \notin DOMAIN d},
     other_tokens : {<<OtherRs2>>, <<OtherRs1>>}]

TokenResponses == SingleRecordResponses \cup MultiRecordResponses

GrantResults == TokenResponses \cup {[ok |-> FALSE]}

\* the grant results drawn while a request is in progress: a failure, a
\* token valid for an hour, a token that expires at once, and two records
RequestGrantResults ==
    {g \in GrantResults :
        g.ok => /\ "refresh_token" \notin DOMAIN g.data
                /\ g.other_tokens \in {<<>>, <<OtherRs2>>}
                /\ ("expires_in" \in DOMAIN g.data => g.data.expires_in # 70)}

(***************************************************************************)
(* globus_sdk/auth/token_response.py                                       *)
(***************************************************************************)
\* dict.get(key, default)
Get(d, key, default) == IF key \in DOMAIN d THEN d[key] ELSE default

\* int(time.time() + n) for a whole number n of seconds
IntTimePlus(clk, n) == (clk \div TicksPerSecond) + n

convert_token_info_dict(source_dict, clk) ==
    LET expires_in == Get(source_dict, "expires_in", 0)
    IN  [scope |-> source_dict.scope,
         access_token |-> source_dict.access_token,
         refresh_token |-> Get(source_dict, "refresh_token", None),
         expires_at_seconds |-> IntTimePlus(clk, expires_in),
         resource_server |-> source_dict.resource_server]

\* dict(generator): a later item replaces an earlier one with the same key
DictOfItems(items, clk) ==
    LET last(rs) == CHOOSE i \in 1..Len(items) :
                        /\ items[i].resource_server = rs
                        /\ \A j \in (i + 1)..Len(items) :
                               items[j].resource_server # rs
    IN  [rs \in {items[i].resource_server : i \in 1..Len(items)} |->
             convert_token_info_dict(items[last(rs)], clk)]

\* OAuthTokenResponse._init_rs_dict: update() lets other_tokens replace the
\* top-level record of the same resource server
init_rs_dict(res, clk) ==
    DictOfItems(res.other_tokens, clk)
        @@ (res.data.resource_server :> convert_token_info_dict(res.data, clk))

by_resource_server(res, clk) == init_rs_dict(res, clk)

(***************************************************************************)
(* globus_sdk/authorizers/*.py                                             *)
(* A method whose result is used in several places is split in two: the    *)
(* call, and an operator for the statements that follow it.                *)
(***************************************************************************)
\* variant: the token counts as expired from the very instant of its expiry
TimeAtOrAfter(clk, expires_at) == clk >= expires_at * TicksPerSecond

\* time.time() > expires_at, expires_at in whole seconds
TimeAfter(clk, expires_at) == clk > expires_at * TicksPerSecond

safe_b64encode(s) == CASE s = "user:pass" -> "dXNlcjpwYXNz"

AccessTokenAuthorizer_init(access_token) ==
    [kind |-> "AccessTokenAuthorizer", access_token |-> access_token,
     expires_at |-> NoTime, refresh_token |-> None, on_refresh |-> FALSE,
     header_val |-> "Bearer " \o access_token]

BasicAuthorizer_init(username, password) ==
    [kind |-> "BasicAuthorizer", access_token |-> None,
     expires_at |-> NoTime, refresh_token |-> None, on_refresh |-> FALSE,
     header_val |-> "Basic " \o safe_b64encode(username \o ":" \o password)]

NullAuthorizer_init ==
    [kind |-> "NullAuthorizer", access_token |-> None,
     expires_at |-> NoTime, refresh_token |-> None, on_refresh |-> FALSE,
     header_val |-> None]

\* BaseClient(authorizer=None)
NoAuthorizer ==
    [kind |-> "NoAuthorizer", access_token |-> None,
     expires_at |-> NoTime, refresh_token |-> None, on_refresh |-> FALSE,
     header_val |-> None]

\* variant: the declared expiry is stored as it is
set_expiration_time_unadjusted(a, expires_at) ==
    [a EXCEPT !.expires_at = expires_at]

set_expiration_time(a, expires_at) ==
    [a EXCEPT !.expires_at = expires_at - EXPIRES_ADJUST_SECONDS]

\* RefreshTokenAuthorizer._extract_token_data, after the record is taken:
\* the refresh token is replaced if the record has the key
update_refresh_token(a, token_data) ==
    IF a.kind = "RefreshTokenAuthorizer"
           /\ "refresh_token" \in DOMAIN token_data
    THEN [auth |-> [a EXCEPT !.refresh_token = token_data["refresh_token"]],
          raised |-> FALSE, token_data |-> token_data]
    ELSE [auth |-> a, raised |-> FALSE, token_data |-> token_data]

\* variant: takes one of the token records without counting them
only_token_data_unchecked(a, brs) ==
    update_refresh_token(a, brs[CHOOSE rs \in DOMAIN brs : TRUE])

\* _extract_token_data on the dict by_resource_server: ValueError unless it
\* holds exactly one token record
only_token_data(a, brs) ==
    IF Cardinality(DOMAIN brs) # 1
    THEN [auth |-> a, raised |-> TRUE, token_data |-> <<>>]
    ELSE update_refresh_token(a, brs[CHOOSE rs \in DOMAIN brs : TRUE])

\* RefreshTokenAuthorizer / ClientCredentialsAuthorizer._extract_token_data:
\* the authorizer after the call, the token record, and whether it raised
extract_token_data(a, res, clk) ==
    only_token_data(a, by_resource_server(res, clk))

\* variant: the access token of the record is stored without its expiry
with_token_no_expiry(a, token_data) ==
    [a EXCEPT !.access_token = token_data.access_token]

\* the expiry and the access token of the record are stored
with_token(a, token_data) ==
    [set_expiration_time(a, token_data.expires_at_seconds)
         EXCEPT !.access_token = token_data.access_token]

\* the invocations of on_refresh made by a run: for each one its argument
\* and the authorizer as the callback finds it
on_refresh_called(on_refresh, res, a) ==
    IF on_refresh THEN <<[res |-> res, auth |-> a]>> ELSE <<>>

\* variant: on_refresh is invoked before the token and expiry are stored
store_token_data_callback_first(on_refresh, res, x) ==
    IF x.raised
    THEN [auth |-> x.auth, error |-> "ValueError", callbacks |-> 0,
          on_refresh_calls |-> <<>>, token_data |-> <<>>]
    ELSE [auth |-> with_token(x.auth, x.token_data),
          error |-> None,
          callbacks |-> IF on_refresh THEN 1 ELSE 0,
          on_refresh_calls |-> on_refresh_called(on_refresh, res, x.auth),
          token_data |-> x.token_data]

\* _get_new_access_token after _extract_token_data(res) returned x
store_token_data(on_refresh, res, x) ==
    IF x.raised
    THEN [auth |-> x.auth, error |-> "ValueError", callbacks |-> 0,
          on_refresh_calls |-> <<>>, token_data |-> <<>>]
    ELSE [auth |-> with_token(x.auth, x.token_data),
          error |-> None,
          callbacks |-> IF on_refresh THEN 1 ELSE 0,
          on_refresh_calls |->
              on_refresh_called(on_refresh, res,
                                with_token(x.auth, x.token_data)),
          token_data |-> x.token_data]

\* variant: a failed grant is swallowed and the old token stays in use
get_new_access_token_swallowing(a, g, clk) ==
    IF ~g.ok
    THEN [auth |-> a, error |-> None, callbacks |-> 0,
          on_refresh_calls |-> <<>>, token_data |-> <<>>]
    ELSE store_token_data(a.on_refresh, g, extract_token_data(a, g, clk))

\* variant: a failed grant puts the expiry off, so that the grant is not
\* tried again before an hour has passed
get_new_access_token_putting_off(a, g, clk) ==
    IF ~g.ok
    THEN [auth |-> set_expiration_time(a, IntTimePlus(clk, 3600)),
          error |-> "GrantError", callbacks |-> 0,
          on_refresh_calls |-> <<>>, token_data |-> <<>>]
    ELSE store_token_data(a.on_refresh, g, extract_token_data(a, g, clk))

\* RenewingAuthorizer._get_new_access_token with g the outcome of
\* _get_token_response: the authorizer afterwards, the exception raised (or
\* None), the number of on_refresh invocations and the token record
get_new_access_token(a, g, clk) ==
    IF ~g.ok
    THEN [auth |-> a, error |-> "GrantError", callbacks |-> 0,
          on_refresh_calls |-> <<>>, token_data |-> <<>>]
    ELSE store_token_data(a.on_refresh, g, extract_token_data(a, g, clk))

\* variant: the comparison with the clock is inverted
TokenExpired_inverted(a, clk) ==
    a.access_token = None
        \/ (a.expires_at = NoTime \/ ~TimeAfter(clk, a.expires_at))

\* the condition of RenewingAuthorizer.check_expiration_time
TokenExpired(a, clk) ==
    a.access_token = None
        \/ (a.expires_at = NoTime \/ TimeAfter(clk, a.expires_at))

\* what one run of _get_new_access_token did: the authorizer before it, the
\* grant's result, the clock, the token record used and the exception raised
NoRenewal == [attempted |-> FALSE]
RenewalRun(a, g, clk, n) ==
    [attempted |-> TRUE, before |-> a, res |-> g, at |-> clk,
     token_data |-> n.token_data, error |-> n.error,
     on_refresh_calls |-> n.on_refresh_calls]

\* a call that made no token-grant call
NotRenewed(a) ==
    [auth |-> a, error |-> None, grants |-> 0, callbacks |-> 0,
     renewal |-> NoRenewal]

\* a call that ran _get_new_access_token once, with result n
Renewed(a, g, clk, n) ==
    [auth |-> n.auth, error |-> n.error, grants |-> 1,
     callbacks |-> n.callbacks, renewal |-> RenewalRun(a, g, clk, n)]

\* RenewingAuthorizer.check_expiration_time
check_expiration_time(a, g, clk) ==
    IF TokenExpired(a, clk)
    THEN Renewed(a, g, clk, get_new_access_token(a, g, clk))
    ELSE NotRenewed(a)

\* RenewingAuthorizer.set_authorization_header after check_expiration_time
\* returned or raised: the Authorization entry is written unless it raised
write_bearer(header, c) ==
    [auth |-> c.auth, error |-> c.error, grants |-> c.grants,
     callbacks |-> c.callbacks, renewal |-> c.renewal,
     header |-> IF c.error = None THEN "Bearer " \o c.auth.access_token
                ELSE header]

\* variant: the NullAuthorizer leaves the header dict as it is
set_authorization_header_null_keeps(a, header, g, clk) ==
    IF a.kind \in RenewingKinds
    THEN write_bearer(header, check_expiration_time(a, g, clk))
    ELSE [auth |-> a, error |-> None, grants |-> 0, callbacks |-> 0,
          renewal |-> NoRenewal,
          header |-> IF a.kind = "NullAuthorizer" THEN header
                     ELSE a.header_val]

\* <authorizer>.set_authorization_header(header_dict), header the
\* Authorization entry of header_dict
set_authorization_header(a, header, g, clk) ==
    IF a.kind \in RenewingKinds
    THEN write_bearer(header, check_expiration_time(a, g, clk))
    ELSE [auth |-> a, error |-> None, grants |-> 0, callbacks |-> 0,
          renewal |-> NoRenewal,
          header |-> IF a.kind = "NullAuthorizer" THEN NoHeader
                     ELSE a.header_val]

\* GlobusAuthorizer.handle_missing_authorization, the default inherited by
\* the access-token, basic and null authorizers
GlobusAuthorizer_handle_missing_authorization(a) ==
    [auth |-> a, ret |-> FALSE]

\* variant: invalidates the token but reports that nothing was done
RenewingAuthorizer_handle_missing_authorization_gives_up(a) ==
    [auth |-> [a EXCEPT !.expires_at = NoTime], ret |-> FALSE]

\* variant: invalidates the token by dropping it
RenewingAuthorizer_handle_missing_authorization_drops_token(a) ==
    [auth |-> [a EXCEPT !.expires_at = NoTime, !.access_token = None],
     ret |-> TRUE]

\* variant: reports a retry as worth it without invalidating the token
RenewingAuthorizer_handle_missing_authorization_keeps_expiry(a) ==
    [auth |-> a, ret |-> TRUE]

\* RenewingAuthorizer.handle_missing_authorization
RenewingAuthorizer_handle_missing_authorization(a) ==
    [auth |-> [a EXCEPT !.expires_at = NoTime], ret |-> TRUE]

handle_missing_authorization(a) ==
    IF a.kind \in RenewingKinds
    THEN RenewingAuthorizer_handle_missing_authorization(a)
    ELSE GlobusAuthorizer_handle_missing_authorization(a)

\* the fields of a new renewing authorizer (the subclass constructor stores
\* refresh_token first)
NewRenewing(kind, refresh_token, access_token, on_refresh) ==
    [kind |-> kind, access_token |-> access_token, expires_at |-> NoTime,
     refresh_token |-> IF kind = "RefreshTokenAuthorizer"
                       THEN refresh_token ELSE None,
     on_refresh |-> on_refresh, header_val |-> None]

\* variant: a seed whose adjusted expiry has passed is treated as no seed
init_seed_unless_expired(a, access_token_arg, expires_at, clk) ==
    IF /\ access_token_arg # None
       /\ expires_at # NoTime
       /\ ~TimeAfter(clk, expires_at - EXPIRES_ADJUST_SECONDS)
    THEN set_expiration_time([a EXCEPT !.access_token = access_token_arg],
                             expires_at)
    ELSE [a EXCEPT !.access_token = None]

\* variant: an access token passed without expires_at is kept
init_seed_keeping_token(a, access_token_arg, expires_at, clk) ==
    IF expires_at # NoTime /\ access_token_arg # None
    THEN set_expiration_time([a EXCEPT !.access_token = access_token_arg],
                             expires_at)
    ELSE [a EXCEPT !.access_token = access_token_arg]

\* RenewingAuthorizer.__init__, the seed: a lone access_token is coerced to
\* None, and expires_at is used only together with an access token (the
\* clock clk is not read)
init_seed(a, access_token_arg, expires_at, clk) ==
    IF access_token_arg # None /\ expires_at = NoTime
    THEN [a EXCEPT !.access_token = None]
    ELSE IF expires_at # NoTime /\ access_token_arg # None
    THEN set_expiration_time([a EXCEPT !.access_token = access_token_arg],
                             expires_at)
    ELSE [a EXCEPT !.access_token = access_token_arg]

\* RenewingAuthorizer.__init__, the end: a token is fetched if none is set
init_fetch(a, g, clk) ==
    IF a.access_token = None /\ a.expires_at = NoTime
    THEN Renewed(a, g, clk, get_new_access_token(a, g, clk))
    ELSE NotRenewed(a)

\* RenewingAuthorizer.__init__
RenewingAuthorizer_init(kind, refresh_token, access_token, expires_at, on_refresh, g, clk) ==
    init_fetch(init_seed(NewRenewing(kind, refresh_token, None, on_refresh),
                         access_token, expires_at, clk),
               g, clk)

(***************************************************************************)
(* globus_sdk/exc.py and globus_sdk/base.py                                *)
(***************************************************************************)
\* the classes of requests.exceptions each raised exception is an instance of
IsInstance(e, cls) ==
    cls \in CASE e = "ConnectTimeout" ->
                     {"ConnectTimeout", "ConnectionError", "Timeout",
                      "RequestException"}
              [] e = "ReadTimeout" -> {"ReadTimeout", "Timeout", "RequestException"}
              [] e = "ConnectionError" -> {"ConnectionError", "RequestException"}
              [] OTHER -> {"RequestException"}

\* variant: the timeout test comes before the connect-timeout test
convert_request_exception_timeout_first(e) ==
    IF IsInstance(e, "Timeout") THEN "GlobusTimeoutError"
    ELSE IF IsInstance(e, "ConnectTimeout") THEN "GlobusConnectionTimeoutError"
    ELSE IF IsInstance(e, "ConnectionError") THEN "GlobusConnectionError"
    ELSE "NetworkError"

convert_request_exception(e) ==
    IF IsInstance(e, "ConnectTimeout") THEN "GlobusConnectionTimeoutError"
    ELSE IF IsInstance(e, "Timeout") THEN "GlobusTimeoutError"
    ELSE IF IsInstance(e, "ConnectionError") THEN "GlobusConnectionError"
    ELSE "NetworkError"

(***************************************************************************)
(* HTTP responses as the requests library hands them to the client: the    *)
(* status code, the Content-Type header (NoHeader when the server sent     *)
(* none), the body text, and what r.json() makes of that text.  A decoded  *)
(* JSON value is tagged with its kind; kind "invalid" stands for a text    *)
(* r.json() raises ValueError on.                                          *)
(***************************************************************************)
JNull == [kind |-> "null"]
JList == [kind |-> "list"]
JInvalid == [kind |-> "invalid"]
JObject(fields) == [kind |-> "object", fields |-> fields]

ContentTypes ==
    {NoHeader, "application/json", "application/json; charset=utf-8",
     "text/html"}

\* "application/json" in r.headers["Content-Type"]
HasApplicationJson(content_type) ==
    content_type \in {"application/json", "application/json; charset=utf-8"}

BodyErrorsOne ==
    [text |-> "{errors:[{code:BadRequest,message:oops}]}",
     json |-> JObject([errors |->
                 <<[code |-> "BadRequest", message |-> "oops"]>>])]
BodyErrorsTwo ==
    [text |-> "{errors:[{code:BadRequest,message:oops},{code:Other,message:second}]}",
     json |-> JObject([errors |->
                 <<[code |-> "BadRequest", message |-> "oops"],
                   [code |-> "Other", message |-> "second"]>>])]
BodyErrorsNone ==
    [text |-> "{errors:[]}", json |-> JObject([errors |-> <<>>])]
BodyCodeMessage ==
    [text |-> "{code:BadRequest,message:oops}",
     json |-> JObject([code |-> "BadRequest", message |-> "oops"])]
BodyCodeDetail ==
    [text |-> "{code:BadRequest,detail:why}",
     json |-> JObject([code |-> "BadRequest", detail |-> "why"])]
BodyTransfer ==
    [text |-> "{code:BadRequest,message:oops,request_id:r1}",
     json |-> JObject([code |-> "BadRequest", message |-> "oops",
                       request_id |-> "r1"])]
BodyNoCode ==
    [text |-> "{message:oops}", json |-> JObject([message |-> "oops"])]
BodyNoMessage ==
    [text |-> "{code:BadRequest}", json |-> JObject([code |-> "BadRequest"])]
BodyList == [text |-> "[]", json |-> JList]
BodyNull == [text |-> "null", json |-> JNull]
BodyText == [text |-> "<html>oops</html>", json |-> JInvalid]

Bodies ==
    {BodyErrorsOne, BodyErrorsTwo, BodyErrorsNone, BodyCodeMessage,
     BodyCodeDetail, BodyTransfer, BodyNoCode, BodyNoMessage, BodyList,
     BodyNull, BodyText}

Responses ==
    [raised : {FALSE}, status_code : Statuses, content_type : ContentTypes,
     body : Bodies]

\* the header and body combinations the backend of a request answers with
RequestShapes ==
    {<<"application/json", BodyErrorsOne>>, <<"application/json", BodyNull>>,
     <<NoHeader, BodyText>>, <<"text/html", BodyText>>}

\* what send_request gets from self._session.request: an exception of the
\* requests library, or a response
TransportResults ==
    [raised : {TRUE}, exc : TransportExceptions]
        \cup {r \in Responses : <<r.content_type, r.body>> \in RequestShapes}

NoResponse == [raised |-> TRUE, exc |-> None]

\* the client classes with their error_class and default_response_class
Clients == {"BaseClient", "AuthClient", "TransferClient", "SearchClient"}

error_class(client) ==
    CASE client = "AuthClient" -> "AuthAPIError"
      [] client = "TransferClient" -> "TransferAPIError"
      [] client = "SearchClient" -> "SearchAPIError"
      [] OTHER -> "GlobusAPIError"

default_response_class(client) ==
    IF client = "TransferClient" THEN "TransferResponse"
    ELSE "GlobusHTTPResponse"

\* what a call hands back: the value returned or the exception raised, with
\* the fields of the response or API error object
Raised(e) ==
    [kind |-> "raised", raised |-> e, http_status |-> 0, code |-> None,
     message |-> None, content_type |-> None, data |-> JNull, text |-> None]
Returned == [Raised(None) EXCEPT !.kind = "returned"]
Pending == [Raised(None) EXCEPT !.kind = "pending"]

\* the outcome of a *_load_from_json run: the exception it raised (or None)
\* and the code and message it set
Loaded(code, message) == [exc |-> None, code |-> code, message |-> message]
LoadRaised(e) == [exc |-> e, code |-> None, message |-> None]

\* variant: the last entry of the errors list is the one used
FirstError_last(fields) ==
    IF "errors" \in DOMAIN fields
    THEN IF Len(fields.errors) = 0 THEN <<>>
         ELSE <<fields.errors[Len(fields.errors)]>>
    ELSE <<fields>>

\* data = data["errors"][0] when the document has an errors list: the
\* object code and message are read from, or nothing when the index fails
FirstError(fields) ==
    IF "errors" \in DOMAIN fields
    THEN IF Len(fields.errors) = 0 THEN <<>> ELSE <<fields.errors[1]>>
    ELSE <<fields>>

\* GlobusAPIError._load_from_json from self.code = data["code"] on
GlobusAPIError_code_message(d) ==
    IF "code" \notin DOMAIN d THEN LoadRaised("KeyError")
    ELSE IF "message" \in DOMAIN d THEN Loaded(d.code, d.message)
    ELSE IF "detail" \in DOMAIN d THEN Loaded(d.code, d.detail)
    ELSE LoadRaised("KeyError")

\* AuthAPIError._load_from_json from self.code = data.get("code", "Error") on
AuthAPIError_code_message(d) ==
    Loaded(Get(d, "code", "Error"),
           IF "message" \in DOMAIN d THEN d.message
           ELSE IF "detail" \in DOMAIN d THEN d.detail
           ELSE IF "error" \in DOMAIN d THEN d.error
           ELSE "no_extractable_message")

\* the errors list is looked up and indexed: IndexError when it is empty
load_first_error(cls, first) ==
    IF first = <<>> THEN LoadRaised("IndexError")
    ELSE IF cls = "AuthAPIError" THEN AuthAPIError_code_message(first[1])
    ELSE GlobusAPIError_code_message(first[1])

\* TransferAPIError._load_from_json and SearchAPIError._load_from_json: the
\* keys are read from the document itself
TransferAPIError_load_from_json(d) ==
    IF {"code", "message", "request_id"} \subseteq DOMAIN d
    THEN Loaded(d.code, d.message) ELSE LoadRaised("KeyError")

SearchAPIError_load_from_json(d) ==
    IF {"code", "message"} \subseteq DOMAIN d
    THEN Loaded(d.code, d.message) ELSE LoadRaised("KeyError")

\* <error class>._load_from_json(data): a document that is not an object
\* fails the key test or the subscript with TypeError
load_from_json(cls, data) ==
    IF data.kind # "object" THEN LoadRaised("TypeError")
    ELSE IF cls = "TransferAPIError"
    THEN TransferAPIError_load_from_json(data.fields)
    ELSE IF cls = "SearchAPIError"
    THEN SearchAPIError_load_from_json(data.fields)
    ELSE load_first_error(cls, FirstError(data.fields))

\* the API error built by _load_from_text
ErrorFromText(cls, r) ==
    [Raised(cls) EXCEPT !.http_status = r.status_code, !.code = "Error",
                        !.message = r.body.text]

\* GlobusAPIError.__init__ after _load_from_json returned or raised: KeyError
\* and ValueError fall back to the text, any other exception leaves __init__
ErrorFromJson(cls, r, x) ==
    IF x.exc \in {"KeyError", "ValueError"} THEN ErrorFromText(cls, r)
    ELSE IF x.exc # None THEN Raised(x.exc)
    ELSE [Raised(cls) EXCEPT !.http_status = r.status_code,
                             !.code = x.code, !.message = x.message]

\* GlobusAPIError.__init__(r) of error class cls: what raise error_class(r)
\* raises
GlobusAPIError_init(cls, r) ==
    IF HasApplicationJson(r.content_type)
    THEN IF r.body.json.kind = "invalid" THEN ErrorFromText(cls, r)
         ELSE ErrorFromJson(cls, r, load_from_json(cls, r.body.json))
    ELSE ErrorFromText(cls, r)

\* GlobusHTTPResponse.data: the decoded body, None when it does not decode
GlobusHTTPResponse_data(r) ==
    IF r.body.json.kind = "invalid" THEN JNull ELSE r.body.json

\* GlobusHTTPResponse.__init__(r): http_response.headers["Content-Type"]
\* raises KeyError when the response has no such header
GlobusHTTPResponse_init(cls, r) ==
    IF r.content_type = NoHeader THEN Raised("KeyError")
    ELSE [Returned EXCEPT !.http_status = r.status_code,
                          !.content_type = r.content_type,
                          !.data = GlobusHTTPResponse_data(r),
                          !.text = r.body.text]

\* the tail of BaseClient._request: the response object is built and
\* returned, or the error object is built and raised
FinalOutcome(client, r) ==
    IF 200 <= r.status_code /\ r.status_code < 400
    THEN GlobusHTTPResponse_init(default_response_class(client), r)
    ELSE GlobusAPIError_init(error_class(client), r)

\* the condition under which _request asks the authorizer about a 401
Retry401(status_code, retry_401, a) ==
    status_code = 401 /\ retry_401 /\ a.kind # "NoAuthorizer"

\* variant: every 401 the authorizer is asked about is retried
WillResend_ignoring_answer(status_code, retry_401, a, ret) ==
    Retry401(status_code, retry_401, a)

\* the request is re-decorated and sent again: the authorizer was asked and
\* handle_missing_authorization() returned true
WillResend(status_code, retry_401, a, ret) ==
    Retry401(status_code, retry_401, a) /\ ret



(***************************************************************************)
(* The state machine.                                                      *)
(***************************************************************************)
Unbuilt ==
    [kind |-> "Unbuilt", access_token |-> None, expires_at |-> NoTime,
     refresh_token |-> None, on_refresh |-> FALSE, header_val |-> None]

NoRequest ==
    [retry_401 |-> TRUE, json_body |-> FALSE, text_body |-> FALSE,
     client |-> "BaseClient", headers |-> NoHeader]

ScenarioOff == [step |-> "off", grants |-> 0, headers |-> <<>>, firstAt |-> 0]

\* the grant response of the scenario: one record, access token T1 valid
\* for 3600 seconds
ScenarioAGrant(g) ==
    /\ g.ok
    /\ g.other_tokens = <<>>
    /\ g.data.access_token = "T1"
    /\ g.data.expires_in = 3600

(***************************************************************************)
(* globus_sdk/transfer/paging.py                                           *)
(* Records are numbered by their place in the endpoint's result set (the   *)
(* first record is 1).  A marker or last_key is the number of records      *)
(* before the page it stands for; it is opaque to the cursor.              *)
(***************************************************************************)
PAGING_STYLE_HAS_NEXT == 0
PAGING_STYLE_TOTAL == 1
PAGING_STYLE_LAST_KEY == 2
PAGING_STYLE_MARKER == 3
PagingStyles ==
    {PAGING_STYLE_HAS_NEXT, PAGING_STYLE_TOTAL, PAGING_STYLE_LAST_KEY,
     PAGING_STYLE_MARKER}

\* num_results=None or max_total_results=None
NoLimit == -1
\* a query parameter that is not in the params dict
NoParam == -1
\* a marker that is None, 0 or absent
NoMarker == 0
\* the sentinel _magic held by first_elem once the cached record is gone
Magic == 0

Min(a, b) == IF a < b THEN a ELSE b
Max(a, b) == IF a > b THEN a ELSE b

\* the arguments cursors are created with
NumResults == {NoLimit} \cup (0..(MaxPerCall + 1))
PerCall == 1..MaxPerCall
MaxTotals == {NoLimit, MaxPerCall}
Offsets == {0, 1}

\* the endpoint: the size of its result set, the most records it puts in
\* one page when more are asked for, and the records it returns beyond the
\* limit asked for
Servers == [total : 0..MaxRecords, page : 1..MaxPerCall, over : {0, 1}]
NoServer == [total |-> 0, page |-> 0, over |-> 0]

NoParams ==
    [limit |-> NoParam, offset |-> NoParam, marker |-> NoParam,
     last_key |-> NoParam]

\* the JSON document of a page: DATA and the paging fields of every style
PageOf(srv, start, n) ==
    [DATA |-> [i \in 1..n |-> start + i],
     has_next_page |-> start + n < srv.total,
     total |-> srv.total,
     next_marker |-> IF start + n < srv.total THEN start + n ELSE NoMarker,
     last_key |-> start + n]

NoPage == PageOf(NoServer, 0, 0)

\* where the page asked for by params starts
PageStart(style, params) ==
    IF style = PAGING_STYLE_MARKER THEN Max(0, params.marker)
    ELSE IF style = PAGING_STYLE_LAST_KEY THEN Max(0, params.last_key)
    ELSE params.offset

PageFrom(srv, start, limit) ==
    PageOf(srv, start,
           Max(0, Min(Max(0, Min(limit, srv.page)) + srv.over,
                      srv.total - start)))

\* the endpoint's answer to a page request
ServerPage(srv, style, params) ==
    PageFrom(srv, PageStart(style, params), params.limit)

\* __iter__ has not been called on the cursor
NotIterated == -1

\* PaginatedResource.__init__ up to the creation of the generator; iterAt
\* is the number of records that had been delivered when __iter__ was last
\* called
NewCursor(num_results, max_results_per_call, max_total_results, offset, paging_style) ==
    [state |-> "live",
     asked |-> num_results,
     offset0 |-> offset,
     num_results |->
         IF max_total_results # NoLimit
                /\ (num_results = NoLimit \/ num_results > max_total_results)
         THEN max_total_results ELSE num_results,
     max_results_per_call |-> max_results_per_call,
     max_total_results |-> max_total_results,
     offset |-> offset,
     paging_style |-> paging_style,
     limit |-> NoParam,
     next_marker |-> NoMarker,
     num_results_fetched |-> 0,
     limit_less_than_available_results |-> FALSE,
     generator |-> "created",
     first_elem |-> Magic,
     res |-> NoPage,
     idx |-> 0,
     params |-> NoParams,
     iterAt |-> NotIterated]

NoCursor ==
    [NewCursor(NoLimit, 0, NoLimit, 0, PAGING_STYLE_HAS_NEXT)
         EXCEPT !.state = "none"]

\* iterable_func from its first line to the while loop
start_generator(c) ==
    [c EXCEPT !.generator = "running",
              !.limit = IF c.num_results # NoLimit
                        THEN Min(c.num_results, c.max_results_per_call)
                        ELSE c.max_results_per_call]

\* variant: the marker of the page before is not put in the params
NextParams_no_marker(c, limit) ==
    IF c.paging_style = PAGING_STYLE_MARKER
    THEN [c.params EXCEPT !.limit = limit]
    ELSE IF c.paging_style = PAGING_STYLE_LAST_KEY
    THEN [c.params EXCEPT !.limit = limit,
                          !.last_key = IF c.next_marker # NoMarker
                                       THEN c.next_marker ELSE @]
    ELSE [c.params EXCEPT !.limit = limit, !.offset = c.offset]

\* the params dict after _set_params_for_next_call, limit being self.limit
NextParams(c, limit) ==
    IF c.paging_style = PAGING_STYLE_MARKER
    THEN [c.params EXCEPT !.limit = limit,
                          !.marker = IF c.next_marker # NoMarker
                                     THEN c.next_marker ELSE @]
    ELSE IF c.paging_style = PAGING_STYLE_LAST_KEY
    THEN [c.params EXCEPT !.limit = limit,
                          !.last_key = IF c.next_marker # NoMarker
                                       THEN c.next_marker ELSE @]
    ELSE [c.params EXCEPT !.limit = limit, !.offset = c.offset]

\* self.limit after the test of _set_params_for_next_call
NextLimit(c) ==
    IF c.num_results # NoLimit /\ c.offset + c.limit > c.num_results
    THEN c.num_results - c.offset ELSE c.limit

\* iterable_func._set_params_for_next_call
set_params_for_next_call(c) ==
    [c EXCEPT !.limit = NextLimit(c), !.params = NextParams(c, NextLimit(c))]

\* iterable_func._check_has_next_page(res): the cursor afterwards and the
\* value returned
check_has_next_page(c, res) ==
    IF c.paging_style = PAGING_STYLE_LAST_KEY
    THEN [cursor |-> [c EXCEPT !.next_marker = res.last_key],
          has_next_page |-> res.has_next_page]
    ELSE IF c.paging_style = PAGING_STYLE_MARKER
    THEN [cursor |-> [c EXCEPT !.next_marker = res.next_marker],
          has_next_page |-> res.next_marker # NoMarker]
    ELSE [cursor |-> [c EXCEPT !.offset = @ + c.max_results_per_call],
          has_next_page |->
              IF c.paging_style = PAGING_STYLE_HAS_NEXT
              THEN res.has_next_page
              ELSE c.offset + c.max_results_per_call < res.total]

\* what a run of the generator ends with: a record yielded, the generator
\* finished (StopIteration), or the next page request
Yield(c, i) ==
    [cursor |-> [c EXCEPT !.idx = i, !.generator = "suspended"],
     event |-> "yield", item |-> c.res.DATA[i]]
\* variant: the finished generator can be resumed at the top of its page
Stop_rewinding(c) ==
    [cursor |-> [c EXCEPT !.generator = "suspended", !.idx = 0],
     event |-> "stop", item |-> Magic]

Stop(c) ==
    [cursor |-> [c EXCEPT !.generator = "done"], event |-> "stop",
     item |-> Magic]
NeedPage(c) == [cursor |-> c, event |-> "fetch", item |-> Magic]

\* the while loop after has_next_page = _check_has_next_page(res)
LoopAgain(h) == IF h.has_next_page THEN NeedPage(h.cursor) ELSE Stop(h.cursor)

\* the for loop has run out of items
EndOfPage(c) == LoopAgain(check_has_next_page(c, c.res))

\* the generator after client_method returned the page res
AfterFetch(c) ==
    IF Len(c.res.DATA) > 0 THEN Yield(c, 1) ELSE EndOfPage(c)

\* variant: the budget is tested after the next page has been asked for
AfterCount_late(c) ==
    IF c.idx < Len(c.res.DATA) /\ c.num_results # NoLimit
           /\ c.num_results_fetched >= c.num_results
    THEN Stop([c EXCEPT !.limit_less_than_available_results = TRUE])
    ELSE IF c.idx < Len(c.res.DATA) THEN Yield(c, c.idx + 1)
    ELSE EndOfPage(c)

\* the generator resumed after a yield, num_results_fetched counted
AfterCount(c) ==
    IF c.num_results # NoLimit /\ c.num_results_fetched >= c.num_results
    THEN Stop([c EXCEPT !.limit_less_than_available_results = TRUE])
    ELSE IF c.idx < Len(c.res.DATA) THEN Yield(c, c.idx + 1)
    ELSE EndOfPage(c)

\* next(self.generator) on a generator suspended at its yield
Resume(c) ==
    AfterCount([c EXCEPT !.num_results_fetched = @ + 1,
                         !.generator = "running"])

(***************************************************************************)
(* globus_sdk/base.py: slash_join.  A string is the sequence of its        *)
(* characters.                                                             *)
(***************************************************************************)
Alphabet == {"/", "x"}
Strings == UNION {[1..k -> Alphabet] : k \in 0..MaxLen}

endswith(str, c) == Len(str) > 0 /\ str[Len(str)] = c
startswith(str, c) == Len(str) > 0 /\ str[1] = c

\* variant: both slashes are kept when each side has one
slash_join_keeps_both(a, b) ==
    IF endswith(a, "/") \/ startswith(b, "/") THEN a \o b
    ELSE a \o <<"/">> \o b

slash_join(a, b) ==
    IF endswith(a, "/")
    THEN IF startswith(b, "/") THEN SubSeq(a, 1, Len(a) - 1) \o b
         ELSE a \o b
    ELSE IF startswith(b, "/") THEN a \o b
    ELSE a \o <<"/">> \o b

NoJoin == [a |-> <<>>, b |-> <<>>, called |-> FALSE, url |-> <<>>]

(***************************************************************************)
(* git-annex-remote-globus.py: GlobusRemote, the git-annex adapter.        *)
(***************************************************************************)
\* a request of a client whose authorizer is an AccessTokenAuthorizer, as
\* built by GlobusClient.get_authorizer: one send and no retry; t is what
\* the transport gave
SendOnce(client, t) ==
    IF t.raised THEN Raised(convert_request_exception(t.exc))
    ELSE FinalOutcome(client, t)

\* what the local file system and wget give the adapter
DownloadResults == {"ok", "OSError"}

\* the adapter's record of an operation: the transport result and the
\* outcome of the Globus call it made (Pending when it made none), the
\* value it returned, and how the operation ended
AdapterDone(name, t, core, value, ending) ==
    [op |-> name, received |-> t, core |-> core, value |-> value,
     outcome |-> ending]

NoAdapter == AdapterDone("none", NoResponse, Pending, FALSE, Pending)

\* GlobusRemote.prepare: the authorizer and the TransferClient are built and
\* endpoint_search makes its first page request; nothing is caught
GlobusRemote_prepare(t) ==
    AdapterDone("prepare", t, SendOnce("TransferClient", t), FALSE,
                IF SendOnce("TransferClient", t).kind = "raised"
                THEN SendOnce("TransferClient", t) ELSE Returned)

\* GlobusRemote.transfer_retrieve and _do_retrieve
GlobusRemote_transfer_retrieve(download) ==
    AdapterDone("transfer_retrieve", NoResponse, Pending, FALSE,
                IF download = "OSError" THEN Raised("RemoteError")
                ELSE Returned)

\* GlobusRemote.checkpresent and _do_checkpresent
GlobusRemote_checkpresent(exists, isfile) ==
    AdapterDone("checkpresent", NoResponse, Pending, exists /\ isfile,
                IF ~exists THEN Raised("RemoteError") ELSE Returned)

\* GlobusRemote.remove
GlobusRemote_remove == AdapterDone("remove", NoResponse, Pending, FALSE, Returned)

(***************************************************************************)
(* Client constructors: BaseClient.__init__ and its subclasses.            *)
(***************************************************************************)
ClientClasses ==
    {"BaseClient", "AuthClient", "NativeAppAuthClient",
     "ConfidentialAppAuthClient", "TransferClient", "SearchClient"}

\* type(authorizer) of the objects a caller can pass as authorizer; the
\* last one is a class derived from AccessTokenAuthorizer
AuthorizerTypes ==
    RenewingKinds \cup StaticKinds
        \cup {"NullAuthorizer", "AccessTokenAuthorizerSubclass"}

\* the authorizer argument of a constructor call: the keyword left out,
\* authorizer=None, or an authorizer object
AuthorizerArgs == {"omitted", None} \cup AuthorizerTypes

\* base_url given by the caller, or looked up for an environment that
\* config knows or does not know
BaseUrlCases == {"given", "configured", "unknown environment"}

\* the class attribute allowed_authorizer_types: any is TRUE for None
allowed_authorizer_types(cls) ==
    CASE cls = "NativeAppAuthClient" ->
             [any |-> FALSE, types |-> {"NullAuthorizer"}]
      [] cls = "ConfidentialAppAuthClient" ->
             [any |-> FALSE, types |-> {"BasicAuthorizer"}]
      [] cls \in {"TransferClient", "SearchClient"} ->
             [any |-> FALSE,
              types |-> {"AccessTokenAuthorizer", "RefreshTokenAuthorizer",
                         "ClientCredentialsAuthorizer"}]
      [] OTHER -> [any |-> TRUE, types |-> {}]

UsageError(message) ==
    [Raised("GlobusSDKUsageError") EXCEPT !.message = message]

ClientCall(cls, arg, url, exists, authorizer, ending) ==
    [called |-> TRUE, cls |-> cls, arg |-> arg, url |-> url,
     exists |-> exists, authorizer |-> authorizer, outcome |-> ending]

NoClient ==
    [ClientCall("BaseClient", "omitted", "given", FALSE, None, Pending)
         EXCEPT !.called = FALSE]

\* BaseClient.__init__(self, service, base_url=..., authorizer=authorizer)
BaseClient_init(cls, arg, url, authorizer) ==
    IF ~allowed_authorizer_types(cls).any /\ authorizer # None
           /\ authorizer \notin allowed_authorizer_types(cls).types
    THEN ClientCall(cls, arg, url, FALSE, None,
                    UsageError("can only take authorizers from"))
    ELSE IF url = "unknown environment"
    THEN ClientCall(cls, arg, url, FALSE, None,
                    UsageError("Failed to find a url for service"))
    ELSE ClientCall(cls, arg, url, TRUE, authorizer, Returned)

\* variant: the app clients hand a caller's authorizer on to BaseClient
Client_init_forwarding(cls, arg, url) ==
    IF cls = "NativeAppAuthClient" /\ arg = "omitted"
    THEN BaseClient_init(cls, arg, url, "NullAuthorizer")
    ELSE IF cls = "ConfidentialAppAuthClient" /\ arg = "omitted"
    THEN BaseClient_init(cls, arg, url, "BasicAuthorizer")
    ELSE BaseClient_init(cls, arg, url, IF arg = "omitted" THEN None ELSE arg)

\* <cls>.__init__(..., authorizer=arg): the app clients refuse the
\* authorizer keyword and build their own authorizer
Client_init(cls, arg, url) ==
    IF cls \in {"NativeAppAuthClient", "ConfidentialAppAuthClient"}
           /\ arg # "omitted"
    THEN ClientCall(cls, arg, url, FALSE, None,
                    UsageError("Cannot give an authorizer"))
    ELSE IF cls = "NativeAppAuthClient"
    THEN BaseClient_init(cls, arg, url, "NullAuthorizer")
    ELSE IF cls = "ConfidentialAppAuthClient"
    THEN BaseClient_init(cls, arg, url, "BasicAuthorizer")
    ELSE BaseClient_init(cls, arg, url, IF arg = "omitted" THEN None ELSE arg)

(***************************************************************************)
(* globus_sdk/transfer/client.py: TransferClient.task_wait.  Times are     *)
(* whole seconds.                                                          *)
(***************************************************************************)
Timeouts == 0..MaxTimeout
PollingIntervals == 0..MaxInterval

\* what get_task gives a poll: the status of the task, or an exception
PollResults == {"ACTIVE", "SUCCEEDED", "FAILED", "raised"}

\* a task_wait call: its arguments, where it stands, the local variables
\* polling_interval and waited_time, the results of its polls, the seconds
\* slept so far, and how it ended
WaitCall(timeout, asked, pc_, ending, value) ==
    [pc |-> pc_, timeout |-> timeout, asked |-> asked,
     polling_interval |-> Min(timeout, asked), waited_time |-> 0,
     seen |-> <<>>, slept |-> 0, ended |-> ending, value |-> value]

NoWait == WaitCall(0, 0, "idle", "pending", FALSE)

\* task_wait up to the while loop: the arguments are checked
task_wait_begin(timeout, polling_interval) ==
    IF timeout < 1 \/ polling_interval < 1
    THEN WaitCall(timeout, polling_interval, "done", "GlobusSDKUsageError",
                  FALSE)
    ELSE WaitCall(timeout, polling_interval, "poll", "pending", FALSE)

\* variant: time is out as soon as the waited time reaches the timeout
timed_out_at(w) == w.waited_time >= w.timeout

\* task_wait.timed_out(waited_time)
timed_out(w) == w.waited_time > w.timeout

\* the loop body after waited_time += polling_interval
after_waited(w) ==
    IF timed_out(w)
    THEN [w EXCEPT !.pc = "done", !.ended = "returned", !.value = FALSE]
    ELSE [w EXCEPT !.pc = "sleep"]

\* the loop body from get_task to the sleep, r what get_task gave
task_wait_poll(w, r) ==
    IF r = "raised"
    THEN [w EXCEPT !.pc = "done", !.ended = "raised", !.seen = Append(@, r)]
    ELSE IF r # "ACTIVE"
    THEN [w EXCEPT !.pc = "done", !.ended = "returned", !.value = TRUE,
                   !.seen = Append(@, r)]
    ELSE after_waited([w EXCEPT !.seen = Append(@, r),
                                !.waited_time = @ + w.polling_interval])

\* the AuthClient classes: the base class has no oauth2_start_flow
AuthClientClasses ==
    {"AuthClient", "NativeAppAuthClient", "ConfidentialAppAuthClient"}

\* the verifier argument of the native flow: left out, well-formed, or
\* one that make_native_app_challenge refuses
Verifiers == {"omitted", "valid", "invalid"}

\* the state argument of oauth2_start_flow
FlowStates == {"_default", "other"}

\* what the transport gives the token request of the code exchange
ExchangeResults == {"OAuthTokenResponse", "AuthAPIError", "NetworkError"}

\* a flow manager object: the n-th one started on the client
FlowManager(n, class, state) == [id |-> n, class |-> class, state |-> state]

\* self.current_oauth2_flow_manager = None
NoManager == FlowManager(0, None, None)

\* how an oauth2 call on the client went: the manager it used, the HTTP
\* requests it sent, and what it returned or raised
FlowCall(name, used, sent, ended) ==
    [op |-> name, used |-> used, sent |-> sent, ended |-> ended]

NoFlowCall == FlowCall(None, NoManager, 0, None)

\* AuthClient.__init__: no flow manager yet; started lists the managers
\* oauth2_start_flow has built on this client
AuthClient_init(cls) ==
    [cls |-> cls, current_oauth2_flow_manager |-> NoManager,
     started |-> <<>>, requests |-> 0, call |-> NoFlowCall]

NoFlow == AuthClient_init("AuthClient")

\* the manager class each client's oauth2_start_flow builds
ManagerClass(cls) ==
    IF cls = "NativeAppAuthClient" THEN "GlobusNativeAppFlowManager"
    ELSE "GlobusAuthorizationCodeFlowManager"

\* the manager's constructor raises: make_native_app_challenge refuses
\* the verifier
ManagerRefused(cls, verifier) ==
    cls = "NativeAppAuthClient" /\ verifier = "invalid"

\* variant: a flow already started is kept
oauth2_start_flow_keeps_first(c, verifier, state) ==
    IF ManagerRefused(c.cls, verifier)
    THEN [c EXCEPT !.call = FlowCall("oauth2_start_flow", NoManager, 0,
                                     "GlobusSDKUsageError")]
    ELSE [c EXCEPT !.current_oauth2_flow_manager =
                       IF @ = NoManager
                       THEN FlowManager(Len(c.started) + 1,
                                        ManagerClass(c.cls), state)
                       ELSE @,
                   !.started = Append(@, FlowManager(Len(c.started) + 1,
                                                 ManagerClass(c.cls), state)),
                   !.call = FlowCall("oauth2_start_flow", NoManager, 0,
                                     "returned")]

\* oauth2_start_flow of NativeAppAuthClient and ConfidentialAppAuthClient:
\* the manager is built, then assigned
oauth2_start_flow(c, verifier, state) ==
    IF ManagerRefused(c.cls, verifier)
    THEN [c EXCEPT !.call = FlowCall("oauth2_start_flow", NoManager, 0,
                                     "GlobusSDKUsageError")]
    ELSE [c EXCEPT !.current_oauth2_flow_manager =
                       FlowManager(Len(c.started) + 1, ManagerClass(c.cls),
                                   state),
                   !.started = Append(@, FlowManager(Len(c.started) + 1,
                                                 ManagerClass(c.cls), state)),
                   !.call = FlowCall("oauth2_start_flow", NoManager, 0,
                                     "returned")]

\* AuthClient.oauth2_get_authorize_url: the manager builds the URL from
\* its own fields, nothing is sent
oauth2_get_authorize_url(c) ==
    IF c.current_oauth2_flow_manager = NoManager
    THEN [c EXCEPT !.call = FlowCall("oauth2_get_authorize_url", NoManager,
                                     0, "GlobusSDKUsageError")]
    ELSE [c EXCEPT !.call = FlowCall("oauth2_get_authorize_url",
                                     c.current_oauth2_flow_manager, 0,
                                     "returned")]

\* AuthClient.oauth2_exchange_code_for_tokens: the manager posts one token
\* request through oauth2_token, r what the transport gives it
oauth2_exchange_code_for_tokens(c, r) ==
    IF c.current_oauth2_flow_manager = NoManager
    THEN [c EXCEPT !.call = FlowCall("oauth2_exchange_code_for_tokens",
                                     NoManager, 0, "GlobusSDKUsageError")]
    ELSE [c EXCEPT !.requests = @ + 1,
                   !.call = FlowCall("oauth2_exchange_code_for_tokens",
                                     c.current_oauth2_flow_manager, 1,
                                     IF r = "OAuthTokenResponse"
                                     THEN "returned" ELSE r)]


\* the callers (threads) sharing the authorizer
Callers == {1, 2}

\* a caller of set_authorization_header: where it stands, the locals
\* token_data and res of its _get_new_access_token, and the Authorization
\* entry of its own header dict
NoCaller == [pc |-> "idle", token_data |-> <<>>, header |-> NoHeader]

\* one shared RenewingAuthorizer a, the clock, the grants made so far,
\* the authorizer as the callers found it, and the renewal response the
\* stored token and the stored expiry each come from
SharedAuthorizer(a, pc_) ==
    [auth |-> a, now |-> StartSeconds * TicksPerSecond, grants |-> 0,
     start |-> a, token_from |-> 0, expiry_from |-> 0,
     callers |-> [i \in Callers |-> [NoCaller EXCEPT !.pc = pc_]]]

NoRace ==
    SharedAuthorizer(NewRenewing("RefreshTokenAuthorizer", "R0", None, FALSE),
                     "idle")

\* the token record of the n-th grant made on the shared authorizer
NthTokenData(n, expires_in, clk) ==
    [id |-> n, access_token |-> IF n = 1 THEN "T1" ELSE "T2",
     expires_at_seconds |-> IntTimePlus(clk, expires_in)]

\* a caller moves to the step pc_
CallerAt(r, i, pc_) == [r EXCEPT !.callers[i].pc = pc_]

\* whether a renewal has failed on this authorizer: "clean" while none
\* has, "failed" from a set_authorization_header whose renewal raised until
\* one succeeds, "recovered" from then on; before is the value the last
\* set_authorization_header found, now the value it left
NoRecovery == [before |-> "clean", now |-> "clean"]

\* s is what set_authorization_header did
RecoveryAfter(r, s) ==
    [before |-> r.now,
     now |-> IF s.error # None THEN "failed"
             ELSE IF s.grants = 0 \/ r.now = "clean" THEN r.now
             ELSE "recovered"]

\* no authorizer built, no request in progress, no cursor
CoreIdle ==
    /\ auth = Unbuilt
    /\ clock = StartSeconds * TicksPerSecond
    /\ ticks = 0
    /\ pc = "idle"
    /\ req = NoRequest
    /\ rheaders = NoHeader
    /\ op = "none"
    /\ calledAt = StartSeconds * TicksPerSecond
    /\ pre = Unbuilt
    /\ grants = 0
    /\ callbacks = 0
    /\ renewal = NoRenewal
    /\ outcome = Pending
    /\ sends = 0
    /\ resps = <<>>
    /\ sentAuth = <<>>
    /\ received = NoResponse
    /\ scenarioA = ScenarioOff
    /\ recovery = NoRecovery
    /\ cursor = NoCursor
    /\ server = NoServer
    /\ pages = <<>>
    /\ yielded = <<>>

\* no standalone call made
UtilIdle ==
    /\ join = NoJoin
    /\ adapter = NoAdapter  \* idle
    /\ sdkClient = NoClient  \* idle
    /\ wait = NoWait  \* idle
    /\ flow = NoFlow  \* idle
    /\ race = NoRace  \* idle

Init == CoreIdle /\ UtilIdle

\* time passes between calls
Tick ==
    /\ ticks < MaxTicks
    /\ \E d \in TickSteps : clock' = clock + d
    /\ ticks' = ticks + 1
    /\ UNCHANGED <<auth, pc, req, rheaders, op, calledAt, pre, grants,
                   callbacks, renewal, outcome, sends, resps, sentAuth,
                   received, scenarioA>>
    /\ UNCHANGED recovery
    /\ UNCHANGED pagingVars
    /\ UNCHANGED utilVars

\* the constructor call of each kind of authorizer
NewAuthorizer(kind, access_token, expires_at, on_refresh, g, clk) ==
    IF kind \in RenewingKinds
    THEN RenewingAuthorizer_init(kind, "R0", access_token, expires_at,
                                 on_refresh, g, clk)
    ELSE NotRenewed(CASE kind = "AccessTokenAuthorizer" ->
                             AccessTokenAuthorizer_init("T0")
                      [] kind = "BasicAuthorizer" ->
                             BasicAuthorizer_init("user", "pass")
                      [] kind = "NullAuthorizer" -> NullAuthorizer_init
                      [] OTHER -> NoAuthorizer)

\* the caller builds the authorizer it will hand to the client
Construct ==
    /\ auth.kind = "Unbuilt"
    /\ pc = "idle"
    /\ \E kind \in Kinds, access_token \in {None, "T0"},
          expires_at \in SeedExpiresAt \cup {NoTime},
          on_refresh \in BOOLEAN, g \in GrantResults :
          \E c \in {NewAuthorizer(kind, access_token, expires_at, on_refresh,
                                   g, clock)} :
              /\ kind \notin RenewingKinds =>
                     access_token = None /\ expires_at = NoTime /\ ~on_refresh
              /\ c.grants = 0 => ~g.ok
              /\ auth' = IF c.error = None THEN c.auth ELSE Unbuilt
              /\ pre' = [Unbuilt EXCEPT !.kind = kind,
                                        !.access_token = access_token,
                                        !.expires_at = expires_at,
                                        !.on_refresh = on_refresh]
              /\ grants' = c.grants
              /\ callbacks' = c.callbacks
              /\ renewal' = c.renewal
              /\ outcome' = IF c.error = None THEN Returned ELSE Raised(c.error)
              /\ scenarioA' =
                     IF /\ kind \in RenewingKinds
                        /\ access_token = None /\ expires_at = NoTime
                        /\ ScenarioAGrant(g) /\ c.error = None
                     THEN [step |-> "constructed", grants |-> c.grants,
                           headers |-> <<>>, firstAt |-> 0]
                     ELSE ScenarioOff
    /\ op' = "construct"
    /\ calledAt' = clock
    /\ sends' = 0
    /\ resps' = <<>>
    /\ sentAuth' = <<>>
    /\ received' = NoResponse
    /\ UNCHANGED <<clock, ticks, pc, req, rheaders>>
    /\ recovery' = NoRecovery
    /\ UNCHANGED pagingVars
    /\ UNCHANGED utilVars

\* a direct call of authorizer.set_authorization_header(header_dict) on a
\* header dict without an Authorization entry
Decorate ==
    /\ auth.kind \notin {"Unbuilt", "NoAuthorizer"}
    /\ pc = "idle"
    /\ \E g \in GrantResults :
          \E s \in {set_authorization_header(auth, NoHeader, g, clock)} :
              /\ s.grants = 0 => ~g.ok
              /\ auth' = s.auth
              /\ rheaders' = s.header
              /\ grants' = s.grants
              /\ callbacks' = s.callbacks
              /\ renewal' = s.renewal
              /\ recovery' = RecoveryAfter(recovery, s)
              /\ outcome' = IF s.error = None THEN Returned ELSE Raised(s.error)
              /\ scenarioA' =
                     IF scenarioA.step = "constructed"
                     THEN [step |-> "decorated1",
                           grants |-> scenarioA.grants + s.grants,
                           headers |-> <<s.header>>, firstAt |-> clock]
                     ELSE IF scenarioA.step = "decorated1"
                     THEN [scenarioA EXCEPT
                               !.step = "decorated2",
                               !.grants = scenarioA.grants + s.grants,
                               !.headers = Append(scenarioA.headers, s.header)]
                     ELSE ScenarioOff
    /\ pre' = auth
    /\ op' = "decorate"
    /\ calledAt' = clock
    /\ sends' = 0
    /\ resps' = <<>>
    /\ sentAuth' = <<>>
    /\ received' = NoResponse
    /\ UNCHANGED <<clock, ticks, pc, req>>
    /\ UNCHANGED pagingVars
    /\ UNCHANGED utilVars

\* a direct call of authorizer.handle_missing_authorization()
HandleMissing ==
    /\ auth.kind \notin {"Unbuilt", "NoAuthorizer"}
    /\ pc = "idle"
    /\ \E h \in {handle_missing_authorization(auth)} :
           /\ auth' = h.auth
           /\ outcome' = [Returned EXCEPT !.kind = IF h.ret THEN "returned True"
                                                   ELSE "returned False"]
    /\ pre' = auth
    /\ op' = "handle_missing_authorization"
    /\ calledAt' = clock
    /\ grants' = 0
    /\ callbacks' = 0
    /\ renewal' = NoRenewal
    /\ sends' = 0
    /\ resps' = <<>>
    /\ sentAuth' = <<>>
    /\ received' = NoResponse
    /\ scenarioA' = ScenarioOff
    /\ UNCHANGED <<clock, ticks, pc, req, rheaders>>
    /\ UNCHANGED recovery
    /\ UNCHANGED pagingVars
    /\ UNCHANGED utilVars

\* BaseClient._request up to the first send: headers, body, Authorization.
\* debug is Python's __debug__: the assert statement on the two bodies is
\* compiled out when the interpreter runs with -O.
RequestBegin ==
    /\ auth.kind # "Unbuilt"
    /\ pc = "idle"
    /\ \E header \in {NoHeader, "Caller"}, json_body \in BOOLEAN,
          text_body \in BOOLEAN, retry_401 \in BOOLEAN, debug \in BOOLEAN,
          g \in RequestGrantResults :
          \E s \in {set_authorization_header(auth, header, g, clock)},
             decorated \in {auth.kind # "NoAuthorizer"},
             asserted \in {json_body /\ text_body /\ debug} :
              /\ ~(json_body /\ text_body) => debug
              /\ (~decorated \/ s.grants = 0 \/ asserted) => ~g.ok
              /\ req' = [retry_401 |-> retry_401, json_body |-> json_body,
                         text_body |-> text_body, client |-> "BaseClient",
                         headers |-> header]
              /\ IF asserted
                 THEN /\ outcome' = Raised("AssertionError")
                      /\ pc' = "idle"
                      /\ rheaders' = header
                      /\ grants' = 0
                      /\ callbacks' = 0
                      /\ renewal' = NoRenewal
                      /\ auth' = auth
                 ELSE IF ~decorated
                 THEN /\ outcome' = Pending
                      /\ pc' = "send"
                      /\ rheaders' = header
                      /\ grants' = 0
                      /\ callbacks' = 0
                      /\ renewal' = NoRenewal
                      /\ auth' = auth
                 ELSE /\ outcome' = IF s.error = None THEN Pending
                                    ELSE Raised(s.error)
                      /\ pc' = IF s.error = None THEN "send" ELSE "idle"
                      /\ rheaders' = s.header
                      /\ grants' = s.grants
                      /\ callbacks' = s.callbacks
                      /\ renewal' = s.renewal
                      /\ auth' = s.auth
    /\ pre' = auth
    /\ op' = "request"
    /\ calledAt' = clock
    /\ sends' = 0
    /\ resps' = <<>>
    /\ sentAuth' = <<>>
    /\ received' = NoResponse
    /\ scenarioA' = ScenarioOff
    /\ UNCHANGED <<clock, ticks>>
    /\ UNCHANGED recovery
    /\ UNCHANGED pagingVars
    /\ UNCHANGED utilVars

\* the initial send_request(), and the 401 handling that follows it
FirstSend ==
    /\ pc = "send"
    /\ sends' = sends + 1
    /\ sentAuth' = Append(sentAuth, rheaders)
    /\ \E t \in TransportResults, g \in RequestGrantResults :
          /\ received' = t
          /\ IF t.raised
             THEN /\ ~g.ok
                  /\ outcome' = Raised(convert_request_exception(t.exc))
                  /\ pc' = "idle"
                  /\ resps' = resps
                  /\ UNCHANGED <<auth, rheaders, grants, callbacks, renewal>>
             ELSE \E h \in {IF Retry401(t.status_code, req.retry_401, auth)
                             THEN handle_missing_authorization(auth)
                             ELSE [auth |-> auth, ret |-> FALSE]} :
                  \E s \in {set_authorization_header(h.auth, rheaders, g,
                                                     clock)} :
                      /\ resps' = Append(resps, t.status_code)
                      /\ IF WillResend(t.status_code, req.retry_401, auth,
                                       h.ret)
                         THEN /\ s.grants = 0 => ~g.ok
                              /\ auth' = s.auth
                              /\ rheaders' = s.header
                              /\ grants' = grants + s.grants
                              /\ callbacks' = callbacks + s.callbacks
                              /\ renewal' = IF s.renewal.attempted
                                            THEN s.renewal ELSE renewal
                              /\ outcome' = IF s.error = None THEN Pending
                                            ELSE Raised(s.error)
                              /\ pc' = IF s.error = None THEN "resend"
                                       ELSE "idle"
                         ELSE /\ ~g.ok
                              /\ auth' = h.auth
                              /\ outcome' = FinalOutcome(req.client, t)
                              /\ pc' = "idle"
                              /\ UNCHANGED <<rheaders, grants, callbacks,
                                             renewal>>
    /\ UNCHANGED <<clock, ticks, req, op, calledAt, pre, scenarioA>>
    /\ UNCHANGED recovery
    /\ UNCHANGED pagingVars
    /\ UNCHANGED utilVars

\* the second send_request() after a 401, and the end of _request
Resend ==
    /\ pc = "resend"
    /\ sends' = sends + 1
    /\ sentAuth' = Append(sentAuth, rheaders)
    /\ \E t \in TransportResults :
          /\ received' = t
          /\ IF t.raised
             THEN /\ outcome' = Raised(convert_request_exception(t.exc))
                  /\ resps' = resps
             ELSE /\ outcome' = FinalOutcome(req.client, t)
                  /\ resps' = Append(resps, t.status_code)
    /\ pc' = "idle"
    /\ UNCHANGED <<auth, clock, ticks, req, rheaders, op, calledAt, pre,
                   grants, callbacks, renewal, scenarioA>>
    /\ UNCHANGED recovery
    /\ UNCHANGED pagingVars
    /\ UNCHANGED utilVars

\* the authorizer's own life: construction and direct calls, over time
Next ==
    \/ Tick
    \/ Construct
    \/ Decorate
    \/ HandleMissing

Spec == Init /\ [][Next]_vars

\* the client layer: requests issued through the authorizer
NextRequest ==
    \/ Construct
    \/ RequestBegin
    \/ FirstSend
    \/ Resend

SpecRequest == Init /\ [][NextRequest]_vars

\* the end of _request on its own: a client without authorizer has sent a
\* request once and send_request has returned the response r
InitResponse ==
    /\ auth = NoAuthorizer
    /\ clock = StartSeconds * TicksPerSecond
    /\ ticks = 0
    /\ pc = "respond"
    /\ \E client \in Clients : req = [NoRequest EXCEPT !.client = client]
    /\ rheaders = NoHeader
    /\ op = "request"
    /\ calledAt = StartSeconds * TicksPerSecond
    /\ pre = NoAuthorizer
    /\ grants = 0
    /\ callbacks = 0
    /\ renewal = NoRenewal
    /\ outcome = Pending
    /\ sends = 1
    /\ \E r \in Responses : received = r /\ resps = <<r.status_code>>
    /\ sentAuth = <<NoHeader>>
    /\ scenarioA = ScenarioOff
    /\ recovery = NoRecovery
    /\ cursor = NoCursor
    /\ server = NoServer
    /\ pages = <<>>
    /\ yielded = <<>>
    /\ UtilIdle

\* _request returns default_response_class(r) or raises error_class(r)
Respond ==
    /\ pc = "respond"
    /\ outcome' = FinalOutcome(req.client, received)
    /\ pc' = "idle"
    /\ UNCHANGED <<auth, clock, ticks, req, rheaders, op, calledAt, pre,
                   grants, callbacks, renewal, sends, resps, sentAuth,
                   received, scenarioA>>
    /\ UNCHANGED recovery
    /\ UNCHANGED pagingVars
    /\ UNCHANGED utilVars

NextResponse == Respond

SpecResponse == InitResponse /\ [][NextResponse]_vars

(***************************************************************************)
(* PaginatedResource: the constructor, the page requests and __next__.     *)
(***************************************************************************)
\* variant: the cached record stays in first_elem
take_first_elem_kept(c) == c

\* __next__ handing out the cached record: first_elem is set to _magic
take_first_elem(c) == [c EXCEPT !.first_elem = Magic]

\* what the caller of the generator (caller is "cursor_init" for __init__,
\* "cursor_next" for __next__) makes of the way the run ended
Settle(caller, g) ==
    /\ cursor' = IF caller = "cursor_init" /\ g.event = "yield"
                 THEN [g.cursor EXCEPT !.first_elem = g.item]
                 ELSE IF caller = "cursor_init" /\ g.event = "stop"
                 THEN [g.cursor EXCEPT !.generator = "none"]
                 ELSE g.cursor
    /\ pc' = IF g.event = "fetch" THEN "fetch" ELSE "idle"
    /\ outcome' = IF g.event = "fetch" THEN Pending
                  ELSE IF caller = "cursor_next" /\ g.event = "stop"
                  THEN Raised("StopIteration")
                  ELSE Returned
    /\ yielded' = IF caller = "cursor_next" /\ g.event = "yield"
                  THEN Append(yielded, g.item) ELSE yielded

\* PaginatedResource(client.get, path, ...) up to the first page request
CursorCreate ==
    /\ pc = "idle"
    /\ cursor.state = "none"
    /\ \E srv \in Servers, num_results \in NumResults,
          max_results_per_call \in PerCall, max_total_results \in MaxTotals,
          offset \in Offsets, paging_style \in PagingStyles :
          /\ server' = srv
          /\ cursor' = start_generator(
                           NewCursor(num_results, max_results_per_call,
                                     max_total_results, offset, paging_style))
    /\ pc' = "fetch"
    /\ op' = "cursor_init"
    /\ outcome' = Pending
    /\ pages' = <<>>
    /\ yielded' = <<>>
    /\ UNCHANGED requestVars
    /\ UNCHANGED utilVars

\* one turn of the while loop of iterable_func up to its first yield: the
\* parameters are set, the page is requested through client_method, which
\* returns it or raises
Fetch ==
    /\ pc = "fetch"
    /\ Len(pages) < MaxPages
    /\ \E fails \in BOOLEAN :
          \E c \in {set_params_for_next_call(cursor)} :
          \E res \in {ServerPage(server, c.paging_style, c.params)} :
              /\ pages' = Append(pages, [params |-> c.params,
                                         failed |-> fails,
                                         res |-> IF fails THEN NoPage
                                                 ELSE res])
              /\ IF fails
                 THEN /\ cursor' = IF op = "cursor_init" THEN NoCursor
                                   ELSE [c EXCEPT !.generator = "done"]
                      /\ pc' = "idle"
                      /\ outcome' = Raised("FetchError")
                      /\ yielded' = yielded
                 ELSE Settle(op, AfterFetch([c EXCEPT !.res = res,
                                                      !.idx = 0]))
    /\ UNCHANGED <<op, server>>
    /\ UNCHANGED requestVars
    /\ UNCHANGED utilVars

\* PaginatedResource.__next__
CursorNext ==
    /\ pc = "idle"
    /\ cursor.state = "live"
    /\ op' = "cursor_next"
    /\ IF cursor.generator = "none"
       THEN /\ outcome' = Raised("StopIteration")
            /\ UNCHANGED <<cursor, pc, yielded>>
       ELSE IF cursor.first_elem # Magic
       THEN /\ yielded' = Append(yielded, cursor.first_elem)
            /\ cursor' = take_first_elem(cursor)
            /\ outcome' = Returned
            /\ pc' = pc
       ELSE IF cursor.generator = "done"
       THEN /\ outcome' = Raised("StopIteration")
            /\ UNCHANGED <<cursor, pc, yielded>>
       ELSE Settle("cursor_next", Resume(cursor))
    /\ UNCHANGED <<server, pages>>
    /\ UNCHANGED requestVars
    /\ UNCHANGED utilVars

\* PaginatedResource.__iter__: a new iteration (a for loop, list(cursor))
\* gets the cursor itself
CursorIter ==
    /\ pc = "idle"
    /\ cursor.state = "live"
    /\ op' = "cursor_iter"
    /\ outcome' = Returned
    /\ cursor' = [cursor EXCEPT !.iterAt = Len(yielded)]
    /\ UNCHANGED <<pc, server, pages, yielded>>
    /\ UNCHANGED requestVars
    /\ UNCHANGED utilVars

NextPaging ==
    \/ CursorCreate
    \/ Fetch
    \/ CursorNext
    \/ CursorIter

SpecPaging == Init /\ [][NextPaging]_vars

(***************************************************************************)
(* slash_join applied to every pair of strings up to MaxLen characters.    *)
(***************************************************************************)
InitJoin ==
    /\ CoreIdle
    /\ \E a \in Strings, b \in Strings : join = [NoJoin EXCEPT !.a = a, !.b = b]
    /\ adapter = NoAdapter  \* idle
    /\ sdkClient = NoClient  \* idle
    /\ wait = NoWait  \* idle
    /\ flow = NoFlow  \* idle
    /\ race = NoRace  \* idle

\* url = slash_join(a, b)
SlashJoin ==
    /\ ~join.called
    /\ join' = [join EXCEPT !.called = TRUE, !.url = slash_join(join.a, join.b)]
    /\ UNCHANGED <<adapter, sdkClient, wait, flow, race>>  \* others
    /\ UNCHANGED requestVars
    /\ UNCHANGED pagingVars
    /\ UNCHANGED <<pc, op, outcome>>

NextJoin == SlashJoin

SpecJoin == InitJoin /\ [][NextJoin]_vars

(***************************************************************************)
(* The operations git-annex asks of the adapter.                           *)
(***************************************************************************)
AdapterUnchanged ==
    /\ UNCHANGED requestVars
    /\ UNCHANGED pagingVars
    /\ UNCHANGED <<pc, op, outcome>>
    /\ UNCHANGED <<join, sdkClient, wait, flow, race>>  \* others

Prepare ==
    /\ \E t \in [raised : {TRUE}, exc : TransportExceptions] \cup Responses :
          adapter' = GlobusRemote_prepare(t)
    /\ AdapterUnchanged

TransferRetrieve ==
    /\ \E download \in DownloadResults :
          adapter' = GlobusRemote_transfer_retrieve(download)
    /\ AdapterUnchanged

Checkpresent ==
    /\ \E exists \in BOOLEAN, isfile \in BOOLEAN :
          adapter' = GlobusRemote_checkpresent(exists, isfile)
    /\ AdapterUnchanged

Remove ==
    /\ adapter' = GlobusRemote_remove
    /\ AdapterUnchanged

NextAdapter ==
    \/ Prepare
    \/ TransferRetrieve
    \/ Checkpresent
    \/ Remove

SpecAdapter == Init /\ [][NextAdapter]_vars

(***************************************************************************)
(* Clients are constructed.                                                *)
(***************************************************************************)
ClientConstruct ==
    /\ \E cls \in ClientClasses, arg \in AuthorizerArgs, url \in BaseUrlCases :
          sdkClient' = Client_init(cls, arg, url)
    /\ UNCHANGED requestVars
    /\ UNCHANGED pagingVars
    /\ UNCHANGED <<pc, op, outcome>>
    /\ UNCHANGED <<join, adapter, wait, flow, race>>  \* others

NextClient == ClientConstruct

SpecClient == Init /\ [][NextClient]_vars

(***************************************************************************)
(* task_wait: the call, its polls and its sleeps.                          *)
(***************************************************************************)
WaitUnchanged ==
    /\ UNCHANGED requestVars
    /\ UNCHANGED pagingVars
    /\ UNCHANGED <<pc, op, outcome>>
    /\ UNCHANGED <<join, adapter, sdkClient, flow, race>>  \* others

TaskWait ==
    /\ wait.pc \in {"idle", "done"}
    /\ \E timeout \in Timeouts, polling_interval \in PollingIntervals :
          wait' = task_wait_begin(timeout, polling_interval)
    /\ WaitUnchanged

\* task = self.get_task(task_id) and what follows up to the sleep
Poll ==
    /\ wait.pc = "poll"
    /\ \E r \in PollResults : wait' = task_wait_poll(wait, r)
    /\ WaitUnchanged

\* time.sleep(polling_interval)
Sleep ==
    /\ wait.pc = "sleep"
    /\ wait' = [wait EXCEPT !.pc = "poll",
                            !.slept = @ + wait.polling_interval]
    /\ WaitUnchanged

NextWait ==
    \/ TaskWait
    \/ Poll
    \/ Sleep

SpecWait == Init /\ [][NextWait]_vars

\* a call that has been started is run on: get_task answers or raises and
\* time.sleep returns
SpecWaitLive == SpecWait /\ WF_vars(Poll) /\ WF_vars(Sleep)

FlowUnchanged ==
    /\ UNCHANGED requestVars
    /\ UNCHANGED pagingVars
    /\ UNCHANGED <<pc, op, outcome>>
    /\ UNCHANGED <<join, adapter, sdkClient, wait, race>>  \* others

\* an AuthClient of one of the three classes is constructed
AuthClientConstruct ==
    /\ \E cls \in AuthClientClasses : flow' = AuthClient_init(cls)
    /\ FlowUnchanged

StartFlow ==
    /\ flow.cls # "AuthClient"
    /\ Len(flow.started) < MaxFlows
    /\ \E verifier \in Verifiers, state \in FlowStates :
          flow' = oauth2_start_flow(flow, verifier, state)
    /\ FlowUnchanged

GetAuthorizeUrl ==
    /\ flow' = oauth2_get_authorize_url(flow)
    /\ FlowUnchanged

ExchangeCode ==
    /\ flow.requests < MaxFlows
    /\ \E r \in ExchangeResults :
          flow' = oauth2_exchange_code_for_tokens(flow, r)
    /\ FlowUnchanged

NextFlow ==
    \/ AuthClientConstruct
    \/ StartFlow
    \/ GetAuthorizeUrl
    \/ ExchangeCode

SpecFlow == Init /\ [][NextFlow]_vars

RaceUnchanged ==
    /\ UNCHANGED requestVars
    /\ UNCHANGED pagingVars
    /\ UNCHANGED <<pc, op, outcome>>
    /\ UNCHANGED <<join, adapter, sdkClient, wait, flow>>  \* others

\* two callers enter set_authorization_header on an authorizer that holds
\* the token T0 with an adjusted expiry that is cleared, past or ahead
RaceStart ==
    /\ \A i \in Callers : race.callers[i].pc \in {"idle", "done", "raised"}
    /\ \E expires_at \in {NoTime, StartSeconds - 1, StartSeconds + 10} :
          race' = SharedAuthorizer(
                      [NewRenewing("RefreshTokenAuthorizer", "R0", "T0", FALSE)
                           EXCEPT !.expires_at = expires_at],
                      "check_token")
    /\ RaceUnchanged

\* check_expiration_time: self.access_token is None
CheckToken(i) ==
    /\ race.callers[i].pc = "check_token"
    /\ race' = CallerAt(race, i, IF race.auth.access_token = None
                                 THEN "grant" ELSE "check_none")
    /\ RaceUnchanged

\* check_expiration_time: self.expires_at is None
CheckNone(i) ==
    /\ race.callers[i].pc = "check_none"
    /\ race' = CallerAt(race, i, IF race.auth.expires_at = NoTime
                                 THEN "grant" ELSE "check_time")
    /\ RaceUnchanged

\* check_expiration_time: time.time() > self.expires_at
CheckTime(i) ==
    /\ race.callers[i].pc = "check_time"
    /\ race' = CallerAt(race, i, IF TimeAfter(race.now, race.auth.expires_at)
                                 THEN "grant" ELSE "header")
    /\ RaceUnchanged

\* _get_new_access_token: _get_token_response and _extract_token_data,
\* which return a token record into the caller's locals or raise
RaceGrant(i) ==
    /\ race.callers[i].pc = "grant"
    /\ \E ok \in BOOLEAN, expires_in \in ExpiresInValues :
          race' = IF ok
                  THEN [race EXCEPT
                            !.grants = @ + 1,
                            !.callers[i].pc = "set_expiry",
                            !.callers[i].token_data =
                                NthTokenData(race.grants + 1, expires_in,
                                             race.now)]
                  ELSE [race EXCEPT !.grants = @ + 1,
                                    !.callers[i].pc = "raised"]
    /\ RaceUnchanged

\* _get_new_access_token: self._set_expiration_time(...)
SetExpiry(i) ==
    /\ race.callers[i].pc = "set_expiry"
    /\ race' = [race EXCEPT
                    !.auth = set_expiration_time(
                                 @, race.callers[i].token_data
                                        .expires_at_seconds),
                    !.expiry_from = race.callers[i].token_data.id,
                    !.callers[i].pc = "set_token"]
    /\ RaceUnchanged

\* _get_new_access_token: self.access_token = token_data["access_token"]
SetToken(i) ==
    /\ race.callers[i].pc = "set_token"
    /\ race' = [race EXCEPT
                    !.auth.access_token =
                        race.callers[i].token_data.access_token,
                    !.token_from = race.callers[i].token_data.id,
                    !.callers[i].pc = "header"]
    /\ RaceUnchanged

\* set_authorization_header: header_dict["Authorization"] = "Bearer %s" %
\* self.access_token
WriteHeader(i) ==
    /\ race.callers[i].pc = "header"
    /\ race' = [race EXCEPT
                    !.callers[i].header = "Bearer " \o race.auth.access_token,
                    !.callers[i].pc = "done"]
    /\ RaceUnchanged

NextRace ==
    \/ RaceStart
    \/ \E i \in Callers : CheckToken(i)
    \/ \E i \in Callers : CheckNone(i)
    \/ \E i \in Callers : CheckTime(i)
    \/ \E i \in Callers : RaceGrant(i)
    \/ \E i \in Callers : SetExpiry(i)
    \/ \E i \in Callers : SetToken(i)
    \/ \E i \in Callers : WriteHeader(i)

SpecRace == Init /\ [][NextRace]_vars

(***************************************************************************)
(* Properties.                                                             *)
(***************************************************************************)
\* the token record of a grant response that names one resource server:
\* the last of other_tokens if there is one, else the top-level record
GrantedDict(res) ==
    IF res.other_tokens # <<>> THEN res.other_tokens[Len(res.other_tokens)]
    ELSE res.data

ResourceServers(res) ==
    {res.data.resource_server}
        \cup {res.other_tokens[i].resource_server :
                  i \in 1..Len(res.other_tokens)}

RequestDone == op = "request" /\ pc = "idle"

\* the call raised the client's API error carrying that status
ApiError(status) ==
    /\ outcome.kind = "raised"
    /\ outcome.raised \in {"GlobusAPIError", "AuthAPIError",
                           "TransferAPIError", "SearchAPIError"}
    /\ outcome.http_status = status

\* C1: a request made with retry_401 through a renewing authorizer is sent
\* at most twice; when the answers are 401 then 200 it was sent twice and
\* returns the response, when they are 401 and 401 it was sent twice and
\* raises the API error, and after a first 401 only a failed renewal keeps
\* it from being sent a second time.
SingleRetryOn401 ==
    /\ sends <= 2
    /\ Len(resps) <= sends
    /\ (RequestDone /\ pre.kind \in RenewingKinds /\ req.retry_401) =>
          /\ resps = <<401, 200>> =>
                 sends = 2 /\ outcome.kind = "returned"
                           /\ outcome.http_status = 200
          /\ resps = <<401, 401>> => sends = 2 /\ ApiError(401)
          /\ (resps = <<401>> /\ sends = 1) =>
                 outcome.raised \in {"GrantError", "ValueError"}

\* a direct set_authorization_header call on a renewing authorizer that
\* holds a token and an adjusted expiry
DecorateWithToken ==
    /\ op = "decorate"
    /\ pre.kind \in RenewingKinds
    /\ pre.access_token # None
    /\ pre.expires_at # NoTime

\* C2 (as stated): decorate strictly before the adjusted expiry T makes no
\* token-grant call, and decorate at or after T, the instant T included,
\* makes exactly one.
RenewalFromExpiryInstant ==
    DecorateWithToken =>
        IF calledAt < pre.expires_at * TicksPerSecond
        THEN grants = 0 ELSE grants = 1

\* C2 (amended): decorate before the adjusted expiry T or at the instant T
\* makes no token-grant call, and decorate strictly after T makes exactly
\* one.
RenewalAfterExpiryInstant ==
    DecorateWithToken =>
        IF calledAt <= pre.expires_at * TicksPerSecond
        THEN grants = 0 /\ auth = pre
        ELSE grants = 1

DecoratedAtExpiryInstant ==
    /\ DecorateWithToken
    /\ calledAt = pre.expires_at * TicksPerSecond
    /\ grants = 0

\* a renewal of a refresh-token authorizer that succeeded
RefreshRenewed ==
    /\ op \in {"construct", "decorate"}
    /\ renewal.attempted
    /\ renewal.error = None
    /\ renewal.before.kind = "RefreshTokenAuthorizer"

\* C3: after a renewal of a RefreshTokenAuthorizer the stored refresh token
\* is the one of the response's token record when that record carries one,
\* and the one held before the renewal when the record omits it.
RefreshTokenRotation ==
    RefreshRenewed =>
        auth.refresh_token =
            IF "refresh_token" \in DOMAIN GrantedDict(renewal.res)
            THEN GrantedDict(renewal.res).refresh_token
            ELSE renewal.before.refresh_token

\* C4: a renewal whose response holds token records of two distinct
\* resource servers raises the ambiguous-token error, leaves the access
\* token, the adjusted expiry and the refresh token as they were before the
\* renewal, and does not invoke on_refresh.
AmbiguousRenewalChangesNothing ==
    (renewal.attempted /\ renewal.res.ok
         /\ Cardinality(ResourceServers(renewal.res)) = 2) =>
        /\ renewal.error = "ValueError"
        /\ outcome = Raised("ValueError")
        /\ callbacks = 0
        /\ op = "decorate" => auth = renewal.before /\ auth = pre
        /\ op = "construct" => auth = Unbuilt

AmbiguousRenewalSeen ==
    /\ op = "decorate"
    /\ pre.kind = "RefreshTokenAuthorizer"
    /\ pre.on_refresh
    /\ pre.access_token # None
    /\ renewal.attempted /\ renewal.res.ok
    /\ Cardinality(ResourceServers(renewal.res)) = 2
    /\ outcome = Raised("ValueError")

\* a constructor call given both access_token and expires_at, with
\* expires_at - 60 already in the past
ConstructWithExpiredSeed ==
    /\ op = "construct"
    /\ pre.kind \in RenewingKinds
    /\ pre.access_token # None
    /\ pre.expires_at # NoTime
    /\ calledAt > (pre.expires_at - 60) * TicksPerSecond

\* C5 (as stated): the constructor of a renewing authorizer given a seed
\* whose adjusted expiry is in the past makes exactly one token-grant call
\* before it returns, and fails if that grant fails.
ExpiredSeedRenewedInConstructor ==
    ConstructWithExpiredSeed =>
        /\ grants = 1
        /\ (~renewal.res.ok => outcome.kind = "raised")

\* C5 (amended): that constructor makes no token-grant call and returns an
\* authorizer holding the seed token and the expiry minus 60; the one grant
\* call is made by the first set_authorization_header on it, which raises
\* when the grant fails.
ExpiredSeedRenewedOnFirstDecorate ==
    /\ ConstructWithExpiredSeed =>
          /\ grants = 0
          /\ outcome = Returned
          /\ auth.access_token = pre.access_token
          /\ auth.expires_at = pre.expires_at - 60
    /\ (DecorateWithToken
          /\ calledAt > pre.expires_at * TicksPerSecond) =>
          /\ grants = 1
          /\ ~renewal.res.ok => outcome = Raised("GrantError") /\ auth = pre

ExpiredSeedKept ==
    /\ ConstructWithExpiredSeed
    /\ grants = 0
    /\ auth.access_token = "T0"

\* a constructor call without a seed, or with only one of the pair
ConstructWithoutFullSeed ==
    /\ op = "construct"
    /\ pre.kind \in RenewingKinds
    /\ (pre.access_token = None \/ pre.expires_at = NoTime)

ScenarioAOneGrant ==
    /\ scenarioA.step = "decorated1" =>
          scenarioA.grants = 1 /\ scenarioA.headers = <<"Bearer T1">>
    /\ (scenarioA.step = "decorated2"
          /\ calledAt = scenarioA.firstAt + 10 * TicksPerSecond) =>
          /\ scenarioA.grants = 1
          /\ scenarioA.headers = <<"Bearer T1", "Bearer T1">>

ScenarioACompleted ==
    /\ scenarioA.step = "decorated2"
    /\ calledAt = scenarioA.firstAt + 10 * TicksPerSecond
    /\ op = "decorate"
    /\ grants = 0

\* C8: the stored adjusted expiry is the declared expiry minus 60 seconds,
\* for a constructor seed and for a renewal response alike, and a decorate
\* made after the adjusted expiry renews, before the declared one is reached.
ExpiryAdjustedBySixty ==
    /\ (op = "construct" /\ pre.kind \in RenewingKinds
          /\ pre.access_token # None /\ pre.expires_at # NoTime) =>
          auth.expires_at = pre.expires_at - 60
    /\ (op \in {"construct", "decorate"} /\ renewal.attempted
          /\ renewal.error = None) =>
          /\ renewal.token_data.expires_at_seconds =
                 (renewal.at \div TicksPerSecond)
                     + Get(GrantedDict(renewal.res), "expires_in", 0)
          /\ auth.expires_at = renewal.token_data.expires_at_seconds - 60
    /\ (DecorateWithToken
          /\ calledAt > pre.expires_at * TicksPerSecond) => grants = 1

RenewedBeforeDeclaredExpiry ==
    /\ DecorateWithToken
    /\ calledAt > pre.expires_at * TicksPerSecond
    /\ calledAt < (pre.expires_at + 60) * TicksPerSecond
    /\ grants = 1
    /\ renewal.error = None

\* C9: handle_missing_authorization on a renewing authorizer returns true,
\* leaves the adjusted expiry absent, makes no token-grant call, and leaves
\* the access token, the refresh token and on_refresh as they were.
HandleMissingOnlyClearsExpiry ==
    (op = "handle_missing_authorization" /\ pre.kind \in RenewingKinds) =>
        /\ outcome.kind = "returned True"
        /\ auth.expires_at = NoTime
        /\ grants = 0
        /\ callbacks = 0
        /\ auth = [pre EXCEPT !.expires_at = NoTime]

ExpiryCleared ==
    /\ op = "handle_missing_authorization"
    /\ pre.kind = "RefreshTokenAuthorizer"
    /\ pre.expires_at # NoTime
    /\ pre.access_token # None
    /\ auth.expires_at = NoTime

\* a finished request made through an access-token, basic or null
\* authorizer whose first response was 401
StaticGot401 ==
    /\ RequestDone
    /\ pre.kind \in StaticKinds \cup {"NullAuthorizer"}
    /\ resps # <<>>
    /\ resps[1] = 401

\* C10: with an access-token, basic or null authorizer a 401 is terminal:
\* the request is sent once, raises the API error with status 401, and the
\* authorizer and its header value are unchanged.
Static401IsTerminal ==
    StaticGot401 =>
        /\ sends = 1
        /\ resps = <<401>>
        /\ ApiError(401)
        /\ auth = pre
        /\ grants = 0

\* C11: when the token grant fails while a request is being decorated, the
\* call ends there with the renewal error and that grant was the only one
\* of the decorate: at the first decorate nothing is sent, and at the
\* decorate after a 401 the request is not sent a second time and the
\* renewal error, not the API error of the 401, is what the call raises.
GrantFailurePropagates ==
    (op = "request" /\ renewal.attempted /\ ~renewal.res.ok) =>
        /\ pc = "idle"
        /\ outcome = Raised("GrantError")
        /\ sends = Len(resps)
        /\ IF sends = 0
           THEN grants = 1
           ELSE /\ sends = 1
                /\ resps = <<401>>
                /\ grants = 1 + (IF TokenExpired(pre, calledAt) THEN 1 ELSE 0)

GrantFailedAfter401 ==
    /\ op = "request"
    /\ renewal.attempted /\ ~renewal.res.ok
    /\ sends = 1
    /\ resps = <<401>>
    /\ grants = 1
    /\ outcome = Raised("GrantError")

\* C12: a request given both json_body and text_body raises the usage error
\* before anything else happens: nothing is sent, no token grant is made
\* and the authorizer is as it was.
BothBodiesUsageError ==
    (op = "request" /\ req.json_body /\ req.text_body) =>
        /\ pc = "idle"
        /\ outcome = Raised("GlobusSDKUsageError")
        /\ sends = 0
        /\ grants = 0
        /\ auth = pre

\* C13: when the transport raises on a send, the call ends there: a connect
\* timeout becomes the connection-timeout error, another timeout the
\* timeout error, a connection failure the connection error, any other
\* transport exception the base NetworkError, and what the call raises is
\* never the transport's exception.
NetworkErrorMapping ==
    (op = "request" /\ received.raised /\ received.exc # None) =>
        /\ pc = "idle"
        /\ sends = Len(resps) + 1
        /\ outcome.kind = "raised"
        /\ outcome.raised \notin TransportExceptions
        /\ outcome.raised =
               CASE received.exc = "ConnectTimeout" ->
                        "GlobusConnectionTimeoutError"
                 [] received.exc = "ReadTimeout" -> "GlobusTimeoutError"
                 [] received.exc = "ConnectionError" -> "GlobusConnectionError"
                 [] OTHER -> "NetworkError"

ResendTimedOutConnecting ==
    /\ op = "request"
    /\ sends = 2
    /\ resps = <<401>>
    /\ received.raised
    /\ received.exc = "ConnectTimeout"
    /\ outcome = Raised("GlobusConnectionTimeoutError")

\* a finished request whose last send got a response and whose renewals,
\* if any, all succeeded
EndedByResponse ==
    /\ RequestDone
    /\ resps # <<>>
    /\ ~received.raised
    /\ ~(renewal.attempted /\ renewal.error # None)

\* C14: a request returns exactly when the status of the last response it
\* received is in [200,400), otherwise it raises the API error carrying
\* that status, and a first response with a status other than 401 is
\* never followed by a second send.
FinalStatusDecides ==
    EndedByResponse =>
        /\ outcome.kind = "returned" <=>
               (200 <= resps[Len(resps)] /\ resps[Len(resps)] < 400)
        /\ outcome.kind = "returned" =>
               outcome.http_status = resps[Len(resps)]
        /\ outcome.kind # "returned" => ApiError(resps[Len(resps)])
        /\ resps[1] # 401 => sends = 1


\* a response with an error status has been turned into what _request
\* raises
ErrorBuilt ==
    /\ op = "request"
    /\ pc = "idle"
    /\ ~received.raised
    /\ received.status_code >= 400

\* the response of scenario B, or one whose errors list has a second entry
ScenarioBResponse ==
    /\ ErrorBuilt
    /\ received.status_code = 400
    /\ HasApplicationJson(received.content_type)
    /\ received.body \in {BodyErrorsOne, BodyErrorsTwo}

\* C15 (as stated): for a status-400 JSON response whose body is an errors
\* list with first entry {code BadRequest, message oops}, the base, Auth,
\* Transfer and Search clients all raise their API error with code
\* BadRequest and message oops.
ScenarioBAllClients ==
    ScenarioBResponse =>
        /\ outcome.raised = error_class(req.client)
        /\ outcome.http_status = 400
        /\ outcome.code = "BadRequest"
        /\ outcome.message = "oops"

\* C15 (amended): for that response the base and Auth clients raise their
\* API error with code BadRequest and message oops, taken from the first
\* entry of the errors list; the Transfer and Search clients do not read an
\* errors list and raise their API error with code Error and the raw body
\* text as message.
ScenarioBBaseAndAuth ==
    ScenarioBResponse =>
        /\ outcome.raised = error_class(req.client)
        /\ outcome.http_status = 400
        /\ IF req.client \in {"BaseClient", "AuthClient"}
           THEN outcome.code = "BadRequest" /\ outcome.message = "oops"
           ELSE outcome.code = "Error"
                    /\ outcome.message = received.body.text

FirstOfTwoErrorsUsed ==
    /\ ScenarioBResponse
    /\ req.client = "BaseClient"
    /\ received.body = BodyErrorsTwo
    /\ outcome.code = "BadRequest"
    /\ outcome.message = "oops"

\* the body shapes of an error response that carry no code and message:
\* any body without a JSON content type, a body that does not decode, an
\* object without code or without message and detail, an empty errors list,
\* a JSON value that is not an object
MalformedErrorBody(r) ==
    \/ ~HasApplicationJson(r.content_type)
    \/ r.body \in {BodyText, BodyNoCode, BodyNoMessage, BodyErrorsNone,
                   BodyList, BodyNull}

\* C16: for every such error response the base client raises its API error
\* with the status of the response, code Error and the raw body text as
\* message, and never another exception.
MalformedBodyDegrades ==
    (ErrorBuilt /\ req.client = "BaseClient"
         /\ MalformedErrorBody(received)) =>
        /\ outcome.raised = "GlobusAPIError"
        /\ outcome.http_status = received.status_code
        /\ outcome.code = "Error"
        /\ outcome.message = received.body.text

\* C17: a response with a status in [200,400) is returned as a Response
\* whatever its Content-Type and body; its structured data is present only
\* when the Content-Type is a JSON one, and a body that does not decode
\* leaves the raw text and no structured data.
SuccessAlwaysWrapped ==
    (op = "request" /\ pc = "idle" /\ ~received.raised /\ sends = Len(resps)
         /\ 200 <= received.status_code /\ received.status_code < 400) =>
        /\ outcome.kind = "returned"
        /\ outcome.http_status = received.status_code
        /\ outcome.text = received.body.text
        /\ outcome.data # JNull => HasApplicationJson(received.content_type)
        /\ received.body.json = JInvalid => outcome.data = JNull

\* no page request of the cursor has failed
NoPageFailed == \A k \in 1..Len(pages) : ~pages[k].failed

\* iteration has run to its end: __next__ raised StopIteration
Drained ==
    /\ op = "cursor_next"
    /\ pc = "idle"
    /\ outcome.kind = "raised"
    /\ outcome.raised = "StopIteration"

Ceil(n, p) == (n + p - 1) \div p

\* a cursor with a budget of its own (no max_total_results below it),
\* starting at the first record, a page-size cap below the budget, an
\* endpoint with at least as many records as the budget that fills every
\* page up to the limit asked for
BudgetCase ==
    /\ cursor.state = "live"
    /\ cursor.asked # NoLimit
    /\ cursor.num_results = cursor.asked
    /\ cursor.offset0 = 0
    /\ cursor.max_results_per_call < cursor.asked
    /\ server.total >= cursor.asked
    /\ server.page >= cursor.max_results_per_call
    /\ server.over = 0
    /\ NoPageFailed

\* a cursor without a budget
UnboundedCase ==
    /\ cursor.state = "live"
    /\ cursor.num_results = NoLimit
    /\ NoPageFailed

\* the termination condition of the paging style holds after page k
StyleTerminates(k) ==
    IF cursor.paging_style = PAGING_STYLE_MARKER
    THEN pages[k].res.next_marker = NoMarker
    ELSE IF cursor.paging_style = PAGING_STYLE_TOTAL
    THEN pages[k].params.offset + cursor.max_results_per_call
             >= pages[k].res.total
    ELSE ~pages[k].res.has_next_page

\* C18: a cursor with budget N, page-size cap P < N, on an endpoint with at
\* least N records and full pages, yields the first N records and no more,
\* makes ceil(N/P) page requests and no more, and is not about to request a
\* page once the N-th record is delivered; a cursor without a budget
\* requests no page after the first page for which the termination
\* condition of its style holds, and ends only after such a page.
PagingExactness ==
    /\ BudgetCase =>
           /\ Len(yielded) <= cursor.asked
           /\ \A i \in 1..Len(yielded) : yielded[i] = i
           /\ Len(pages) <= Ceil(cursor.asked, cursor.max_results_per_call)
           /\ pc = "fetch" =>
                  Len(pages) < Ceil(cursor.asked, cursor.max_results_per_call)
           /\ Drained =>
                  /\ Len(yielded) = cursor.asked
                  /\ Len(pages)
                         = Ceil(cursor.asked, cursor.max_results_per_call)
    /\ UnboundedCase =>
           /\ \A k \in 1..Len(pages) :
                  StyleTerminates(k) => k = Len(pages) /\ pc # "fetch"
           /\ Drained => Len(pages) >= 1 /\ StyleTerminates(Len(pages))

\* a budget of three drained in two pages, the second one cut to one record
BudgetDrainedInTwoPages ==
    /\ BudgetCase
    /\ Drained
    /\ cursor.asked = 3
    /\ cursor.max_results_per_call = 2
    /\ Len(pages) = 2
    /\ yielded = <<1, 2, 3>>

\* scenario C: a MARKER cursor without a budget; the endpoint holds three
\* records a, b, c (1, 2, 3) and answers the first request with two of them
ScenarioC ==
    /\ cursor.state = "live"
    /\ cursor.paging_style = PAGING_STYLE_MARKER
    /\ cursor.num_results = NoLimit
    /\ server.total = 3
    /\ Min(cursor.max_results_per_call, server.page) = 2
    /\ server.over = 0
    /\ NoPageFailed

\* C19: in scenario C the first page is {DATA:[a,b], next_marker:m1} and the
\* second {DATA:[c], next_marker:null}; the cursor yields a, b, c in that
\* order, makes two page requests and no more, and the second request
\* carries the marker m1 of the first page.
ScenarioCYieldsABC ==
    ScenarioC =>
        /\ Len(yielded) <= 3
        /\ \A i \in 1..Len(yielded) : yielded[i] = i
        /\ Len(pages) <= 2
        /\ Len(pages) >= 1 =>
               /\ pages[1].res.DATA = <<1, 2>>
               /\ pages[1].res.next_marker # NoMarker
               /\ pages[1].params.marker = NoParam
        /\ Len(pages) >= 2 =>
               /\ pages[2].res.DATA = <<3>>
               /\ pages[2].res.next_marker = NoMarker
               /\ pages[2].params.marker = pages[1].res.next_marker
        /\ Drained => yielded = <<1, 2, 3>> /\ Len(pages) = 2

ScenarioCDrained ==
    /\ ScenarioC
    /\ Drained
    /\ yielded = <<1, 2, 3>>
    /\ Len(pages) = 2
    /\ pages[2].params.marker = 2

\* the constructor has returned or raised
Constructed == op = "cursor_init" /\ pc = "idle"

\* the first page request succeeded with at least one record
FirstPageHasRecord ==
    /\ Len(pages) >= 1
    /\ ~pages[1].failed
    /\ Len(pages[1].res.DATA) >= 1

\* C20: the constructor makes the first page request before it returns; if
\* a page request of the constructor fails the constructor raises and there
\* is no cursor; if the first request succeeds with a record, the
\* constructor returns with that record cached and nothing delivered, and
\* iteration delivers that record first and only once.
EagerFirstFetch ==
    /\ Constructed => Len(pages) >= 1
    /\ (Constructed /\ ~NoPageFailed) =>
           /\ outcome.kind = "raised"
           /\ outcome.raised = "FetchError"
           /\ cursor.state = "none"
    /\ (Constructed /\ FirstPageHasRecord) =>
           /\ outcome.kind = "returned"
           /\ cursor.state = "live"
           /\ cursor.first_elem = pages[1].res.DATA[1]
           /\ yielded = <<>>
    /\ (cursor.state = "live" /\ FirstPageHasRecord /\ Len(yielded) >= 1) =>
           /\ cursor.first_elem = Magic
           /\ yielded[1] = pages[1].res.DATA[1]
           /\ \A i \in 2..Len(yielded) : yielded[i] # yielded[1]

\* the cached record was delivered and iteration went on to a second page
CachedRecordDeliveredOnce ==
    /\ cursor.state = "live"
    /\ FirstPageHasRecord
    /\ Len(pages) >= 2
    /\ Len(yielded) >= 3
    /\ yielded[1] = pages[1].res.DATA[1]

\* the generator of the cursor has finished or never yielded, and no
\* cached record is left
GeneratorFinished ==
    /\ cursor.state = "live"
    /\ pc = "idle"
    /\ cursor.generator \in {"none", "done"}
    /\ cursor.first_elem = Magic

\* a step that delivers a record delivers one that comes after every record
\* delivered before (the endpoint returning no more than the limit)
YieldsOnlyLater ==
    (yielded' # yielded /\ server.over = 0) =>
        /\ Len(yielded') = Len(yielded) + 1
        /\ \A i \in 1..Len(yielded) :
               /\ yielded'[i] = yielded[i]
               /\ yielded[i] < yielded'[Len(yielded')]

\* a step of a cursor that has signalled exhaustion
StaysExhausted ==
    GeneratorFinished =>
        /\ yielded' = yielded
        /\ pages' = pages
        /\ pc' = "idle"
        /\ cursor'.generator = cursor.generator
        /\ cursor'.first_elem = Magic
        /\ op' = "cursor_next" =>
               outcome'.kind = "raised" /\ outcome'.raised = "StopIteration"

\* C21: when __next__ has raised StopIteration the generator is finished,
\* and from then on every __next__ raises StopIteration again, delivers no
\* record and requests no page, also in a new iteration started with
\* __iter__; every record delivered by any iteration over the cursor comes
\* after all records delivered before.
SinglePass ==
    /\ [](Drained => GeneratorFinished)
    /\ [][StaysExhausted /\ YieldsOnlyLater]_vars

\* a second iteration was started on a cursor that had delivered a record
\* and was not exhausted, and it delivered the following record
SecondIterationContinued ==
    /\ op = "cursor_next"
    /\ pc = "idle"
    /\ cursor.state = "live"
    /\ Len(yielded) >= 2
    /\ outcome.kind = "returned"
    /\ cursor.iterAt = 1
    /\ yielded[2] > yielded[1]

\* C22: the flag limit_less_than_available_results is false as long as the
\* generator has not finished; once iteration is exhausted it is true
\* exactly when the result set of the endpoint holds more records than the
\* budget num_results (a cursor read from the first record with a budget
\* other than 0, pages filled up to the limit, no failed request).
FlagMeansMoreAvailable ==
    (cursor.state = "live" /\ cursor.offset0 = 0
         /\ cursor.num_results = cursor.asked /\ cursor.num_results # 0
         /\ server.page >= cursor.max_results_per_call /\ server.over = 0
         /\ NoPageFailed) =>
        /\ cursor.generator \notin {"none", "done"} =>
               ~cursor.limit_less_than_available_results
        /\ Drained =>
               (cursor.limit_less_than_available_results
                    <=> (cursor.num_results # NoLimit
                             /\ server.total > cursor.num_results))

\* the Authorization value the authorizer a writes
AuthorizerValue(a) ==
    IF a.kind \in RenewingKinds THEN "Bearer " \o a.access_token
    ELSE a.header_val

\* C23: with a NullAuthorizer no send of a request carries an Authorization
\* entry, whatever Authorization entry the caller's headers hold; with an
\* authorizer of any other type no send carries the caller's entry or none:
\* the entry about to be sent, and the one last sent when the call has
\* ended, is the authorizer's value.
AuthorizerOwnsHeader ==
    op = "request" =>
        /\ auth.kind = "NullAuthorizer" =>
               /\ \A i \in 1..Len(sentAuth) : sentAuth[i] = NoHeader
               /\ pc \in {"send", "resend"} => rheaders = NoHeader
        /\ auth.kind \in RenewingKinds \cup StaticKinds =>
               /\ \A i \in 1..Len(sentAuth) :
                      sentAuth[i] \notin {NoHeader, "Caller"}
               /\ pc \in {"send", "resend"} =>
                      rheaders = AuthorizerValue(auth)
               /\ (pc = "idle" /\ Len(sentAuth) >= 1) =>
                      sentAuth[Len(sentAuth)] = AuthorizerValue(auth)

\* a request whose caller supplied an Authorization entry was sent through
\* a NullAuthorizer
NullAuthorizerStrippedCaller ==
    /\ op = "request"
    /\ pc = "idle"
    /\ auth.kind = "NullAuthorizer"
    /\ req.headers = "Caller"
    /\ sentAuth = <<NoHeader>>

\* str without its last character when that is a slash
WithoutTrailingSlash(str) ==
    IF endswith(str, "/") THEN SubSeq(str, 1, Len(str) - 1) ELSE str

\* str without its first character when that is a slash
WithoutLeadingSlash(str) ==
    IF startswith(str, "/") THEN SubSeq(str, 2, Len(str)) ELSE str

\* C24: for a base A or A/ and a path B or /B, where A does not end and B
\* does not start with a slash, slash_join returns A/B in all four cases.
SlashJoinOneSlash ==
    (join.called
         /\ ~endswith(WithoutTrailingSlash(join.a), "/")
         /\ ~startswith(WithoutLeadingSlash(join.b), "/")) =>
        join.url = WithoutTrailingSlash(join.a) \o <<"/">>
                       \o WithoutLeadingSlash(join.b)

\* xx/ joined with /xx
BothSidesCarriedSlash ==
    /\ join.called
    /\ join.a = <<"x", "x", "/">>
    /\ join.b = <<"/", "x", "x">>
    /\ join.url = <<"x", "x", "/", "x", "x">>

\* C25: whenever the Globus call made by an adapter operation raises
\* (network error, API error or any other exception), the operation ends by
\* raising RemoteError.
AdapterRaisesOnlyRemoteError ==
    (adapter.op \in {"prepare", "transfer_retrieve", "checkpresent", "remove"}
         /\ adapter.core.kind = "raised") =>
        /\ adapter.outcome.kind = "raised"
        /\ adapter.outcome.raised = "RemoteError"

\* the authorizer types a client class takes from its caller
Accepts(cls, type) ==
    CASE cls \in {"TransferClient", "SearchClient"} ->
             type \in {"AccessTokenAuthorizer", "RefreshTokenAuthorizer",
                       "ClientCredentialsAuthorizer"}
      [] cls \in {"NativeAppAuthClient", "ConfidentialAppAuthClient"} -> FALSE
      [] OTHER -> TRUE

\* the constructor call failed on account of the authorizer
RefusedAuthorizer ==
    /\ ~sdkClient.exists
    /\ sdkClient.outcome.kind = "raised"
    /\ sdkClient.outcome.raised = "GlobusSDKUsageError"
    /\ sdkClient.outcome.message
           \in {"can only take authorizers from", "Cannot give an authorizer"}

\* C26: a constructor called with an authorizer object of a type its class
\* does not take raises GlobusSDKUsageError and no client exists; one of a
\* type the class takes, and a call without the authorizer argument, is
\* never refused on account of the authorizer, and the client built holds
\* the caller's authorizer (the app clients their own).
ClientAuthorizerTypes ==
    sdkClient.called =>
        /\ (sdkClient.arg \in AuthorizerTypes
                /\ ~Accepts(sdkClient.cls, sdkClient.arg)) => RefusedAuthorizer
        /\ (sdkClient.arg \in AuthorizerTypes
                /\ Accepts(sdkClient.cls, sdkClient.arg)) => ~RefusedAuthorizer
        /\ sdkClient.arg = "omitted" => ~RefusedAuthorizer
        /\ (sdkClient.exists /\ sdkClient.arg \in AuthorizerTypes) =>
               sdkClient.authorizer = sdkClient.arg
        /\ sdkClient.exists <=> sdkClient.outcome.kind = "returned"

\* a NativeAppAuthClient refused the one type in its allowed_authorizer_types
NativeRefusedNullAuthorizer ==
    /\ sdkClient.called
    /\ sdkClient.cls = "NativeAppAuthClient"
    /\ sdkClient.arg = "NullAuthorizer"
    /\ RefusedAuthorizer

\* the call made a token fetch that succeeded: the grant answered and its
\* response held one token record
FetchSucceeded == renewal.attempted /\ renewal.error = None

\* C27: for an authorizer with an on_refresh callback, a constructor or
\* set_authorization_header call that fetched a token successfully invoked
\* the callback once, with the raw response of that fetch, when the
\* authorizer already held the new access token and the expiry of the
\* record less EXPIRES_ADJUST_SECONDS; a call whose fetch failed or that
\* found the token fresh invoked it not at all.
OnRefreshOncePerFetch ==
    (op \in {"construct", "decorate"} /\ pre.kind \in RenewingKinds
         /\ pre.on_refresh) =>
        IF FetchSucceeded
        THEN /\ callbacks = 1
             /\ Len(renewal.on_refresh_calls) = 1
             /\ renewal.on_refresh_calls[1].res = renewal.res
             /\ renewal.on_refresh_calls[1].auth.access_token
                    = renewal.token_data.access_token
             /\ renewal.on_refresh_calls[1].auth.expires_at
                    = renewal.token_data.expires_at_seconds
                          - EXPIRES_ADJUST_SECONDS
             /\ renewal.on_refresh_calls[1].auth = auth
        ELSE /\ callbacks = 0
             /\ renewal.attempted => renewal.on_refresh_calls = <<>>

\* a decorate call renewed an expired token and invoked the callback
CallbackAfterRenewalOnDecorate ==
    /\ op = "decorate"
    /\ pre.kind \in RenewingKinds
    /\ pre.on_refresh
    /\ pre.access_token # None
    /\ FetchSucceeded
    /\ callbacks = 1
    /\ auth.access_token # pre.access_token

\* every poll of the call saw ACTIVE
AllActive == \A i \in 1..Len(wait.seen) : wait.seen[i] = "ACTIVE"

\* what holds of a task_wait call at every point
WaitSafe ==
    /\ (wait.pc # "idle" /\ (wait.timeout < 1 \/ wait.asked < 1)) =>
           /\ wait.pc = "done"
           /\ wait.ended = "GlobusSDKUsageError"
           /\ wait.seen = <<>>
           /\ wait.slept = 0
    /\ \A i \in 1..(Len(wait.seen) - 1) : wait.seen[i] = "ACTIVE"
    /\ wait.pc \in {"poll", "sleep"} => AllActive
    /\ wait.slept <= wait.timeout
    /\ wait.pc = "sleep" => wait.slept + wait.polling_interval <= wait.timeout
    /\ (wait.pc = "done" /\ wait.ended = "returned") =>
           /\ wait.value <=>
                  (Len(wait.seen) >= 1
                       /\ wait.seen[Len(wait.seen)] \notin {"ACTIVE", "raised"})
           /\ ~wait.value => AllActive /\ Len(wait.seen) >= 2
    /\ (wait.pc = "done" /\ AllActive /\ wait.timeout >= 1
            /\ wait.asked >= 1) =>
           wait.ended = "returned" /\ ~wait.value

\* C28: a task_wait call with timeout < 1 or polling_interval < 1 raises
\* the usage error without a poll; otherwise it makes no poll after one that
\* saw a status other than ACTIVE and returns True then, returns False when
\* all its polls saw ACTIVE and then has polled at least twice, never sleeps
\* longer than timeout in total, and every call that has started ends.
TaskWaitTerminates ==
    /\ []WaitSafe
    /\ [](wait.pc \in {"poll", "sleep"} => <>(wait.pc = "done"))

\* timeout 3 and interval 2: two sleeps of two seconds would pass the
\* timeout, so the call gave up after one sleep and two polls
GaveUpAfterTwoPolls ==
    /\ wait.pc = "done"
    /\ wait.timeout = 3
    /\ wait.asked = 2
    /\ wait.ended = "returned"
    /\ ~wait.value
    /\ wait.seen = <<"ACTIVE", "ACTIVE">>
    /\ wait.slept = 2

\* the two calls of an AuthClient that need a started flow
FlowCalls == {"oauth2_get_authorize_url", "oauth2_exchange_code_for_tokens"}

\* C29: on an AuthClient, oauth2_get_authorize_url and
\* oauth2_exchange_code_for_tokens called before any flow was started raise
\* the usage error and send no HTTP request; called after oauth2_start_flow
\* they use the manager of the flow started last and raise no usage error
FlowCallsNeedStartedFlow ==
    flow.call.op \in FlowCalls =>
        IF flow.started = <<>>
        THEN /\ flow.call.ended = "GlobusSDKUsageError"
             /\ flow.call.sent = 0
             /\ flow.requests = 0
        ELSE /\ flow.call.used = flow.started[Len(flow.started)]
             /\ flow.call.ended # "GlobusSDKUsageError"

\* a code exchange ran on the manager of the second flow started
ExchangedOnSecondFlow ==
    /\ flow.call.op = "oauth2_exchange_code_for_tokens"
    /\ Len(flow.started) = 2
    /\ flow.call.used = flow.started[2]
    /\ flow.call.used # flow.started[1]
    /\ flow.call.sent = 1

\* a cursor as endpoint_search builds it: a cap on the total, the default
\* offset and paging style, and num_results left unset or above the cap
CappedSearchCase ==
    /\ cursor.state = "live"
    /\ cursor.max_total_results # NoLimit
    /\ cursor.offset0 = 0
    /\ cursor.paging_style = PAGING_STYLE_HAS_NEXT
    /\ (cursor.asked = NoLimit \/ cursor.asked > cursor.max_total_results)

\* C30: a cursor with a max_total_results cap, created with num_results
\* unset or above the cap, has the cap as its budget, never yields more
\* records than the cap, and never makes more page requests than the cap
\* divided by the page size, none asking for more than the page size
CappedSearchBounded ==
    CappedSearchCase =>
        /\ cursor.num_results = cursor.max_total_results
        /\ Len(yielded) <= cursor.max_total_results
        /\ Len(pages) <= Ceil(cursor.max_total_results,
                              cursor.max_results_per_call)
        /\ \A k \in 1..Len(pages) :
               pages[k].params.limit <= cursor.max_results_per_call

\* a call on a renewing authorizer has returned
RenewingCallReturned(ops) ==
    /\ op \in ops
    /\ pc = "idle"
    /\ auth.kind \in RenewingKinds
    /\ outcome.kind \in {"returned", "returned True"}

TokenWithoutExpiry == auth.access_token # None /\ auth.expires_at = NoTime

\* C31 as stated: after any completed operation on a renewing authorizer
\* (construction, set_authorization_header, handle_missing_authorization)
\* the authorizer is not left with an access token and no adjusted expiry
NoTokenWithoutExpiry ==
    RenewingCallReturned({"construct", "decorate",
                          "handle_missing_authorization"})
        => ~TokenWithoutExpiry

\* C31: after a construction or a set_authorization_header that returned,
\* a renewing authorizer holds an access token and an adjusted expiry;
\* after handle_missing_authorization it holds the token it had and no
\* adjusted expiry
RestingStateAfterRenewal ==
    /\ RenewingCallReturned({"construct", "decorate"}) =>
           auth.access_token # None /\ auth.expires_at # NoTime
    /\ RenewingCallReturned({"handle_missing_authorization"}) =>
           auth.access_token = pre.access_token /\ auth.expires_at = NoTime

\* a set_authorization_header on an authorizer whose expiry had been
\* cleared returned and left a token with an expiry
ExpiryRestoredByDecorate ==
    /\ RenewingCallReturned({"decorate"})
    /\ pre.access_token # None
    /\ pre.expires_at = NoTime
    /\ auth.access_token # None
    /\ auth.expires_at # NoTime

\* a finished request whose first answer was 401, made with retry_401
\* false or through a client without an authorizer
Got401WithoutRetry ==
    /\ RequestDone
    /\ resps # <<>>
    /\ resps[1] = 401
    /\ (~req.retry_401 \/ pre.kind = "NoAuthorizer")

\* the authorizer was not asked about the 401: no grant but the one of the
\* decorate before the send, and a renewing authorizer still has the expiry
\* and the token that were sent
NotAskedAbout401 ==
    /\ grants = 0 => auth = pre
    /\ grants # 0 => grants = 1 /\ renewal.attempted /\ renewal.before = pre
    /\ pre.kind \in RenewingKinds =>
           /\ auth.expires_at # NoTime
           /\ sentAuth = <<"Bearer " \o auth.access_token>>

\* C32: with retry_401 false, or with no authorizer configured, a 401 leads
\* to exactly one send, the authorizer is not asked to recover (a renewing
\* authorizer keeps its token and adjusted expiry and makes no grant call),
\* and the call raises the API error with status 401
NoRetryWithout401Handling ==
    Got401WithoutRetry =>
        /\ sends = 1
        /\ resps = <<401>>
        /\ NotAskedAbout401
        /\ ApiError(401)

\* a request through a renewing authorizer, made with retry_401, whose
\* first answer was 401 and whose handling of that answer is over:
\* handle_missing_authorization and the set_authorization_header after it
\* have run
Renewing401Handled ==
    /\ op = "request"
    /\ pc \in {"resend", "idle"}
    /\ pre.kind \in RenewingKinds
    /\ req.retry_401
    /\ resps # <<>>
    /\ resps[1] = 401

\* C33: the set_authorization_header that follows
\* handle_missing_authorization makes exactly one token-grant call, whether
\* or not the token had expired by the clock, on the authorizer whose
\* expiry was cleared; when the request is sent again, its Authorization
\* header carries the access token that grant returned, which is the token
\* the authorizer now holds
RenewalForcedAfter401 ==
    Renewing401Handled =>
        /\ grants = 1 + (IF TokenExpired(pre, calledAt) THEN 1 ELSE 0)
        /\ renewal.attempted
        /\ renewal.before.expires_at = NoTime
        /\ renewal.before.access_token # None
        /\ sends = 2 \/ pc = "resend" =>
               /\ renewal.res.ok
               /\ rheaders = "Bearer " \o renewal.token_data.access_token
               /\ auth.access_token = renewal.token_data.access_token
        /\ sends = 2 =>
               /\ Len(sentAuth) = 2
               /\ sentAuth[2] = rheaders
               /\ (sentAuth[1] # "Bearer " \o renewal.token_data.access_token
                       => sentAuth[2] # sentAuth[1])

\* a token that had not expired was sent, answered by 401, and the request
\* was sent again with another token
ResentWithNewToken ==
    /\ Renewing401Handled
    /\ ~TokenExpired(pre, calledAt)
    /\ sends = 2
    /\ sentAuth[1] = "Bearer " \o pre.access_token
    /\ sentAuth[2] # sentAuth[1]
    /\ grants = 1

\* C34: whatever the authorizer, the answers of the backend and the
\* failures of the transport, one request call makes at most 2 sends and at
\* most 2 token-grant calls, and it goes on to a second send only if the
\* first answer was 401, retry_401 is true, an authorizer is configured and
\* its handle_missing_authorization returned true
AtMostTwoSendsAndGrants ==
    op = "request" =>
        /\ sends <= 2
        /\ grants <= 2
        /\ Len(sentAuth) = sends
        /\ (sends = 2 \/ pc = "resend") =>
               /\ resps # <<>>
               /\ resps[1] = 401
               /\ req.retry_401
               /\ pre.kind # "NoAuthorizer"
               /\ handle_missing_authorization(pre).ret

\* a request sent twice that made two token-grant calls, one before each
\* send
TwoSendsTwoGrants ==
    /\ RequestDone
    /\ sends = 2
    /\ grants = 2
    /\ Len(resps) = 2

\* the two callers entered on an authorizer whose token had expired
SharedTokenExpired ==
    /\ \A i \in Callers : race.callers[i].pc # "idle"
    /\ TokenExpired(race.start, race.now)

AllCallersEnded ==
    \A i \in Callers : race.callers[i].pc \in {"done", "raised"}

\* C35: when two callers run set_authorization_header at the same time on
\* one RenewingAuthorizer whose token has expired, no caller writes an
\* Authorization header with the expired token, and the access token and
\* the adjusted expiry the authorizer is left with come from the same
\* renewal response
ConcurrentRenewalSafe ==
    SharedTokenExpired =>
        /\ \A i \in Callers :
               race.callers[i].pc = "done" =>
                   race.callers[i].header
                       # "Bearer " \o race.start.access_token
        /\ AllCallersEnded => race.token_from = race.expiry_from

\* the last call was a set_authorization_header on a renewing authorizer
\* that found recovery state r
DecoratedFrom(r) ==
    /\ op = "decorate"
    /\ pre.kind \in RenewingKinds
    /\ recovery.before = r

\* C36: a failed renewal does not wedge a renewing authorizer. The
\* set_authorization_header after a failed renewal makes a grant call
\* again; when that grant succeeds the call returns and the authorizer
\* holds the new access token with its adjusted expiry; and a later
\* set_authorization_header not after that expiry makes no grant call
FailedRenewalRecovers ==
    /\ DecoratedFrom("failed") =>
           /\ grants = 1
           /\ renewal.attempted
           /\ renewal.before = pre
           /\ renewal.error = None =>
                  /\ outcome = Returned
                  /\ recovery.now = "recovered"
                  /\ auth.access_token = renewal.token_data.access_token
                  /\ auth.expires_at =
                         renewal.token_data.expires_at_seconds
                             - EXPIRES_ADJUST_SECONDS
                  /\ rheaders = "Bearer " \o auth.access_token
           /\ renewal.error # None =>
                  /\ outcome = Raised(renewal.error)
                  /\ recovery.now = "failed"
                  /\ auth = pre
    /\ (DecoratedFrom("recovered") /\ ~TokenExpired(pre, calledAt)) =>
           /\ grants = 0
           /\ auth = pre
           /\ outcome = Returned
           /\ rheaders = "Bearer " \o pre.access_token

\* after a renewal had failed and a later one succeeded, a
\* set_authorization_header made at a later instant used the token of the
\* successful renewal without a grant call
DecoratedAfterRecovery ==
    /\ DecoratedFrom("recovered")
    /\ recovery.now = "recovered"
    /\ ~TokenExpired(pre, calledAt)
    /\ grants = 0
    /\ calledAt > StartSeconds * TicksPerSecond
    /\ rheaders = "Bearer " \o auth.access_token

\* a set_authorization_header after a failed renewal renewed successfully
RecoveredFromFailure ==
    /\ DecoratedFrom("failed")
    /\ renewal.attempted
    /\ renewal.error = None
    /\ recovery.now = "recovered"

\* a cursor with no budget or a budget of at least one record
BudgetAtLeastOne ==
    /\ cursor.state = "live"
    /\ (cursor.num_results = NoLimit \/ cursor.num_results >= 1)
    /\ (cursor.asked = NoLimit \/ cursor.asked >= 1)

\* C37: every page request of a cursor with a budget of at least one
\* record asks for a limit between 1 and max_results_per_call, whatever the
\* paging style, the initial offset and the lengths of the pages returned
LimitWithinPageSize ==
    BudgetAtLeastOne =>
        \A k \in 1..Len(pages) :
            /\ pages[k].params.limit >= 1
            /\ pages[k].params.limit <= cursor.max_results_per_call

\* C38: a cursor with budget num_results = N >= 0 never yields more than N
\* records, whatever the paging style and the pages the endpoint returns,
\* pages longer than the limit asked for included
NeverMoreThanBudget ==
    (cursor.state = "live" /\ cursor.num_results # NoLimit) =>
        Len(yielded) <= cursor.num_results

\* the DATA lists of the first k pages the cursor fetched, one after the
\* other in request order
RECURSIVE ConcatData(_)
ConcatData(k) ==
    IF k = 0 THEN <<>>
    ELSE ConcatData(k - 1) \o [i \in 1..Len(pages[k].res.DATA) |->
                                   pages[k].res.DATA[i]]

\* the records of the pages fetched so far
FetchedData == ConcatData(Len(pages))

\* the fetched records cut off at the budget num_results
TruncatedToBudget ==
    IF cursor.num_results = NoLimit THEN FetchedData
    ELSE SubSeq(FetchedData, 1, Min(Len(FetchedData), cursor.num_results))

\* the records delivered so far are the first ones of s
DeliveredFrom(s) ==
    /\ Len(yielded) <= Len(s)
    /\ \A i \in 1..Len(yielded) : yielded[i] = s[i]

\* C39: the records a cursor yields are the concatenation, in request order,
\* of the DATA lists of the pages it fetched, truncated to the budget: at any
\* time the first records of it, and all of it once iteration has ended
YieldsFetchedData ==
    cursor.state = "live" =>
        /\ DeliveredFrom(TruncatedToBudget)
        /\ Drained => yielded = TruncatedToBudget

====
